---- MODULE Spec2Model ----
(***************************************************************************)
(* MangoTango NFT minter: the mint ledger / phase state machine, the       *)
(* allowlist registry, the metadata builder and the reveal operation of    *)
(* src/main.py, with every call executed atomically (one caller), the      *)
(* views, the reveal scheduler and the royalty arithmetic.                 *)
(*                                                                         *)
(* Strings whose content the code inspects (addresses, can_mint reasons,   *)
(* digests) are sequences of one-character strings, so that strip(),       *)
(* lower(), the "in" substring test and int(h, 16) are computed.           *)
(* Optional values are <<>> (None) or <<v>>.                               *)
(***************************************************************************)
EXTENDS Integers, Sequences, FiniteSets, TLC

(***************************************************************************)
(* Bounds.  The first three are the program's constants scaled down so     *)
(* that supply exhaustion, under-payment and the reveal delay are reached  *)
(* by the model checker: main.py has MANGO_TANGO_MAX_SUPPLY = 9999,        *)
(* MANGO_TANGO_MINT_PRICE_WEI = 50000000000000000 and                      *)
(* MANGO_TANGO_REVEAL_DELAY_SEC = 300.                                     *)
(***************************************************************************)
MANGO_TANGO_MAX_SUPPLY == 6
MANGO_TANGO_MINT_PRICE_WEI == 2
MANGO_TANGO_REVEAL_DELAY_SEC == 1
MaxTime == 1
MaxCalls == 3
MaxCallsSession == 4
MaxSalePrice == 20
MaxBatch == 1
MaxCallsInterleaved == 4

(***************************************************************************)
(* Program constants kept at their values.                                 *)
(***************************************************************************)
MANGO_TANGO_ALLOWLIST_PHASE_MAX_PER_WALLET == 2
MANGO_TANGO_PUBLIC_PHASE_MAX_PER_WALLET == 5
MANGO_TANGO_ROYALTY_BPS == 750
MANGO_TANGO_BPS_DENOM == 10000
MANGO_TANGO_COLLECTION_URI == "ipfs://QmMangoTangoCollectionBaseUriPlaceholder/"
MANGO_TANGO_NAME == "MangoTango"

\* class MangoTangoPhase(Enum): the member names, and their values
MangoTangoPhase == {"CLOSED", "ALLOWLIST", "PUBLIC", "SOLD_OUT"}
PhaseValue(p) ==
    CASE p = "CLOSED" -> 0
      [] p = "ALLOWLIST" -> 1
      [] p = "PUBLIC" -> 2
      [] p = "SOLD_OUT" -> 3

\* class MangoTangoEvent(Enum): the member values
MangoTangoEvent ==
    {"MintRequested", "TokenRevealed", "AllowlistUpdated", "PhaseAdvanced", "RoyaltyPaid"}

(***************************************************************************)
(* Strings as character sequences.                                         *)
(***************************************************************************)
\* str.strip(): drop leading and trailing whitespace
RECURSIVE LStrip(_)
LStrip(s) == IF s # <<>> /\ Head(s) = " " THEN LStrip(Tail(s)) ELSE s
RECURSIVE RStrip(_)
RStrip(s) ==
    IF s # <<>> /\ s[Len(s)] = " " THEN RStrip(SubSeq(s, 1, Len(s) - 1)) ELSE s
Strip(s) == RStrip(LStrip(s))

\* str.lower() on the characters of an address ("0x" + hex digits)
LowerChar(c) ==
    CASE c = "A" -> "a" [] c = "B" -> "b" [] c = "C" -> "c" [] c = "D" -> "d"
      [] c = "E" -> "e" [] c = "F" -> "f" [] c = "X" -> "x" [] OTHER -> c
Lower(s) == [i \in 1..Len(s) |-> LowerChar(s[i])]

\* address.strip().lower(): the key of the allowlist and of the wallet counts
Normalize(address) == Lower(Strip(address))

\* sub in s, for Python strings
Contains(s, sub) ==
    \E i \in 1..(Len(s) - Len(sub) + 1) : SubSeq(s, i, i + Len(sub) - 1) = sub

\* str(n) for n >= 0
Digit == <<"0", "1", "2", "3", "4", "5", "6", "7", "8", "9">>
RECURSIVE IntToStr(_)
IntToStr(n) ==
    IF n < 10 THEN Digit[n + 1] ELSE IntToStr(n \div 10) \o Digit[(n % 10) + 1]

\* dict.get(k, default) and d[k] = v on functions with a finite domain
DictGet(d, k, default) == IF k \in DOMAIN d THEN d[k] ELSE default
DictSet(d, k, v) == [x \in (DOMAIN d) \cup {k} |-> IF x = k THEN v ELSE d[x]]
EmptyDict == [x \in {} |-> 0]

(***************************************************************************)
(* can_mint reasons and the needle of mint's error dispatch.               *)
(***************************************************************************)
\* "MangoTango: minting closed"
REASON_CLOSED ==
    <<"M","a","n","g","o","T","a","n","g","o",":"," ",
      "m","i","n","t","i","n","g"," ","c","l","o","s","e","d">>
\* "MangoTango: sold out"
REASON_SOLD_OUT ==
    <<"M","a","n","g","o","T","a","n","g","o",":"," ","s","o","l","d"," ","o","u","t">>
\* "MangoTango: would exceed max supply"
REASON_SUPPLY ==
    <<"M","a","n","g","o","T","a","n","g","o",":"," ","w","o","u","l","d"," ",
      "e","x","c","e","e","d"," ","m","a","x"," ","s","u","p","p","l","y">>
\* "MangoTango: insufficient value"
REASON_VALUE ==
    <<"M","a","n","g","o","T","a","n","g","o",":"," ",
      "i","n","s","u","f","f","i","c","i","e","n","t"," ","v","a","l","u","e">>
\* "MangoTango: not on allowlist"
REASON_ALLOWLIST ==
    <<"M","a","n","g","o","T","a","n","g","o",":"," ",
      "n","o","t"," ","o","n"," ","a","l","l","o","w","l","i","s","t">>
\* "MangoTango: wallet limit exceeded"
REASON_WALLET ==
    <<"M","a","n","g","o","T","a","n","g","o",":"," ","w","a","l","l","e","t"," ",
      "l","i","m","i","t"," ","e","x","c","e","e","d","e","d">>
\* "exceed"
NEEDLE_EXCEED == <<"e","x","c","e","e","d">>

(***************************************************************************)
(* Inputs.                                                                 *)
(***************************************************************************)
\* "0xa", " 0XA" (the same wallet, other case and padding) and "0xb"
ADDR_A == <<"0", "x", "a">>
ADDR_A_VARIANT == <<" ", "0", "X", "A">>
ADDR_B == <<"0", "x", "b">>
Addresses == {ADDR_A, ADDR_A_VARIANT, ADDR_B}
Wallets == {Normalize(a) : a \in Addresses}

\* quantities requested: none, one, and the two per-wallet caps
Quantities ==
    {0, 1, MANGO_TANGO_ALLOWLIST_PHASE_MAX_PER_WALLET,
     MANGO_TANGO_PUBLIC_PHASE_MAX_PER_WALLET}

\* values offered for a quantity: exactly the required price * quantity,
\* and one unit less
OfferedValues(quantity) ==
    {v \in {MANGO_TANGO_MINT_PRICE_WEI * quantity + d : d \in {-1, 0}} : v >= 0}

\* address lists of at most MaxBatch entries
AddressLists == UNION {[1..n -> Addresses] : n \in 0..MaxBatch}

(***************************************************************************)
(* Deterministic trait generator.                                          *)
(***************************************************************************)
MANGO_TANGO_BACKGROUNDS ==
    <<"Tropical Sunset", "Coral Reef", "Golden Hour", "Mango Grove", "Tango Night",
      "Citrus Blush", "Amber Glow", "Saffron Mist", "Peach Haze", "Palm Shadow",
      "Jungle Canopy", "Beach Dawn", "Harvest Moon", "Spice Market", "Rum Barrel">>
MANGO_TANGO_SKIN_TONES ==
    <<"Sun Kissed", "Golden Ripe", "Amber", "Honey", "Caramel",
      "Blush", "Coral", "Peach", "Cream", "Light Amber">>
MANGO_TANGO_EXPRESSIONS ==
    <<"Cheerful", "Wink", "Smirk", "Joy", "Serene",
      "Playful", "Mysterious", "Bold", "Calm", "Zesty">>
MANGO_TANGO_ACCESSORIES ==
    <<"None", "Leaf Crown", "Sunglasses", "Bandana", "Straw Hat",
      "Flower", "Scarf", "Bow Tie", "Earring", "Necklace",
      "Headband", "Cap", "Beret", "Pin", "Chain">>
MANGO_TANGO_RARITY_TIERS == <<"Common", "Uncommon", "Rare", "Epic", "Legendary">>
MANGO_TANGO_BACKGROUND_HEX ==
    <<"#FF6B35", "#F7C35F", "#2D5A27", "#8B4513", "#FF8C00",
      "#CD853F", "#D2691E", "#DEB887", "#F4A460", "#BC8F8F">>
MANGO_TANGO_SPECIAL_TRAITS ==
    <<"Golden Seed", "Tango Dancer", "Mango King", "Tropical Royalty",
      "Sun Blessed", "Harvest Lord", "Citrus Spirit", "Island Soul">>

\* hashlib.sha256(f"{MANGO_TANGO_COLLECTION_SEED}-{token_id}-0").hexdigest():
\* the first 32 hex characters of the digest, tabulated for token ids 1..9
\* (SHA-256 itself is not computed here)
DigestTable ==
    << <<"4","a","9","e","4","2","8","e","6","b","a","4","b","4","b","b","d","8","2","b","8","f","d","2","a","2","a","f","0","8","5","5">>,
       <<"1","3","3","6","0","e","d","e","e","c","d","a","3","0","d","a","e","9","c","d","2","f","e","e","8","2","3","8","9","2","c","8">>,
       <<"0","6","9","4","2","a","3","4","8","5","d","f","9","7","1","5","2","3","b","2","3","d","d","8","0","d","a","5","4","9","c","0">>,
       <<"6","5","1","5","9","9","8","e","6","b","f","c","8","7","d","4","4","c","6","4","2","2","0","1","3","c","2","9","c","a","f","b">>,
       <<"5","d","b","d","0","7","4","a","6","c","2","6","c","e","e","9","1","b","5","b","f","b","9","2","4","4","c","c","7","8","e","a">>,
       <<"3","9","0","7","c","7","0","7","b","d","6","e","c","2","1","4","3","a","7","e","1","8","5","1","2","6","8","a","0","3","1","7">>,
       <<"b","d","6","8","9","1","8","1","3","d","f","b","0","5","b","3","b","0","2","e","c","a","6","4","9","4","d","b","6","9","2","4">>,
       <<"9","1","f","5","d","3","7","6","0","d","7","6","a","b","d","4","9","1","6","d","c","8","8","4","b","e","2","c","a","7","c","4">>,
       <<"4","4","e","7","a","a","f","2","9","8","6","6","1","2","6","5","1","2","7","d","0","6","0","f","2","8","1","e","3","c","0","9">> >>
hash_seed_for_token(token_id) == DigestTable[token_id]

\* Python slice s[lo:hi] (0-based, hi exclusive, clipped to the length)
Slice(s, lo, hi) ==
    LET h == IF hi > Len(s) THEN Len(s) ELSE hi IN SubSeq(s, lo + 1, h)

HexDigit(c) ==
    CASE c = "0" -> 0 [] c = "1" -> 1 [] c = "2" -> 2 [] c = "3" -> 3
      [] c = "4" -> 4 [] c = "5" -> 5 [] c = "6" -> 6 [] c = "7" -> 7
      [] c = "8" -> 8 [] c = "9" -> 9 [] c = "a" -> 10 [] c = "b" -> 11
      [] c = "c" -> 12 [] c = "d" -> 13 [] c = "e" -> 14 [] c = "f" -> 15

\* int(h, 16) % n, by Horner's rule reduced modulo n at every digit
RECURSIVE HexMod(_, _)
HexMod(h, n) ==
    IF h = <<>> THEN 0
    ELSE (HexMod(SubSeq(h, 1, Len(h) - 1), n) * 16 + HexDigit(h[Len(h)])) % n

pick_trait_from_hash(h, traits) == traits[HexMod(Slice(h, 0, 8), Len(traits)) + 1]
pick_hex_from_hash(h, hexes) == hexes[HexMod(Slice(h, 8, 16), Len(hexes)) + 1]

Attr(trait_type, value) == [trait_type |-> trait_type, value |-> value]

generate_metadata_attributes(token_id, revealed) ==
    LET seed == hash_seed_for_token(token_id)
        attrs ==
          << Attr("Background", pick_trait_from_hash(Slice(seed, 0, 16), MANGO_TANGO_BACKGROUNDS)),
             Attr("Skin", pick_trait_from_hash(Slice(seed, 2, 18), MANGO_TANGO_SKIN_TONES)),
             Attr("Expression", pick_trait_from_hash(Slice(seed, 4, 20), MANGO_TANGO_EXPRESSIONS)),
             Attr("Accessory", pick_trait_from_hash(Slice(seed, 6, 22), MANGO_TANGO_ACCESSORIES)),
             Attr("Rarity", pick_trait_from_hash(Slice(seed, 10, 26), MANGO_TANGO_RARITY_TIERS)),
             Attr("Background Color", pick_hex_from_hash(Slice(seed, 12, 28), MANGO_TANGO_BACKGROUND_HEX)) >>
    IN  IF HexMod(Slice(seed, 14, 16), 5) = 0
        THEN Append(attrs, Attr("Special", pick_trait_from_hash(Slice(seed, 16, 32), MANGO_TANGO_SPECIAL_TRAITS)))
        ELSE attrs

\* generate_metadata_attributes, evaluated once per tabulated token id
AttributesOf ==
    [t \in 1..Len(DigestTable) |->
       [r \in BOOLEAN |-> generate_metadata_attributes(t, r)]]

\* build_token_metadata(token_id, revealed), with time.time() = t
build_token_metadata(token_id, revealed, t) ==
    [ token_id |-> token_id,
      name |-> MANGO_TANGO_NAME \o " #" \o IntToStr(token_id),
      description |-> "A unique MangoTango collectible. Token ID " \o IntToStr(token_id)
                      \o ". Part of the " \o MANGO_TANGO_NAME \o " collection.",
      image_uri |-> IF revealed
                    THEN MANGO_TANGO_COLLECTION_URI \o IntToStr(token_id) \o ".png"
                    ELSE MANGO_TANGO_COLLECTION_URI \o "unrevealed.png",
      attributes |-> AttributesOf[token_id][revealed],
      revealed |-> revealed,
      revealed_at |-> IF revealed THEN <<t>> ELSE <<>> ]

(***************************************************************************)
(* State: the fields of MangoTangoMinter set by __init__, the clock read   *)
(* by time.time(), the outcome of the last call (the exception class it    *)
(* raised or "none", and the value it returned), and the number of calls   *)
(* the exploration still allows, which starts at the specification's bound.*)
(* inflight gives each thread's position inside mint: <<>> before its      *)
(* call, or the call's locals (recipient, quantity, iterations left,       *)
(* minted_ids, the exception to raise); overlapped records that some mint  *)
(* passed can_mint's first checks while another still had steps on the     *)
(* ledger to make.                                                         *)
(***************************************************************************)
VARIABLES next_token_id, total_minted, allowlist, mint_count_per_wallet, phase,
          metadata_store, owner_of, reveal_ready_at, event_log, now, last, calls_left,
          inflight, overlapped

ledger == <<next_token_id, total_minted, allowlist, mint_count_per_wallet, phase,
            metadata_store, owner_of, reveal_ready_at, event_log>>
vars == <<next_token_id, total_minted, allowlist, mint_count_per_wallet, phase,
          metadata_store, owner_of, reveal_ready_at, event_log, now, last, calls_left,
          inflight, overlapped>>

Call(op, raised, ret) == [op |-> op, raised |-> raised, ret |-> ret]

\* the mint calls in progress: the claims on concurrent hosts are about two
Threads == {1, 2}
\* the variables of the mint calls in progress, which a serialized call
\* never touches
concurrent == <<inflight, overlapped>>

\* MangoTangoMinter.__init__
Constructed ==
    /\ next_token_id = 1
    /\ total_minted = 0
    /\ allowlist = {}
    /\ mint_count_per_wallet = EmptyDict
    /\ phase = "ALLOWLIST"
    /\ metadata_store = EmptyDict
    /\ owner_of = EmptyDict
    /\ reveal_ready_at = EmptyDict
    /\ event_log = <<>>
    /\ now = 0
    /\ last = Call("init", "none", <<>>)
    /\ inflight = [th \in Threads |-> <<>>]
    /\ overlapped = FALSE

Init == Constructed /\ calls_left = MaxCalls

\* _emit(event, data), on a log
emit(log, event, data) == Append(log, [event |-> event, data |-> data])

\* every call, whatever its outcome, uses one of the calls left
Budget == calls_left > 0

(***************************************************************************)
(* The clock inside a call.  A call reads time.time() each time it needs   *)
(* the time (mint: line 346, once per token; reveal: lines 371 and 220;    *)
(* reveal_all_ready: lines 529, 371 and 220 for each token), and the wall  *)
(* clock can move between two readings.  A call action                     *)
(* takes the sequence of readings it makes as its input clock and leaves   *)
(* now at the last one it made.                                            *)
(***************************************************************************)
Times == 0..MaxTime
\* the most readings a call makes: three for each token
MaxReadings == 3 * MANGO_TANGO_MAX_SUPPLY
\* the clock after the first k readings of clock (k = 0: none was made)
LastRead(clock, k) == IF k <= 0 THEN now ELSE clock[k]
\* readings of a clock that stands at a, and of one that moves from a to b
\* after the k-th reading
Steady(a) == [i \in 1..MaxReadings |-> a]
StepAfter(k, a, b) == [i \in 1..MaxReadings |-> IF i <= k THEN a ELSE b]
\* the clocks explored where the time matters: the first reading is the time
\* of the call, and the clock stands still or moves on by one after the
\* first reading
Clocks == {Steady(now)} \cup {StepAfter(1, now, t) : t \in {now + 1} \cap Times}

get_mint_price_wei ==
    IF phase = "ALLOWLIST" THEN MANGO_TANGO_MINT_PRICE_WEI
    ELSE IF phase = "PUBLIC" THEN MANGO_TANGO_MINT_PRICE_WEI
    ELSE MANGO_TANGO_MINT_PRICE_WEI

\* mutant of get_max_per_wallet: the Public allowance comes on top of the
\* Allowlist one
get_max_per_wallet_stacked ==
    IF phase = "ALLOWLIST" THEN MANGO_TANGO_ALLOWLIST_PHASE_MAX_PER_WALLET
    ELSE IF phase = "PUBLIC"
    THEN MANGO_TANGO_ALLOWLIST_PHASE_MAX_PER_WALLET + MANGO_TANGO_PUBLIC_PHASE_MAX_PER_WALLET
    ELSE 0

get_max_per_wallet ==
    IF phase = "ALLOWLIST" THEN MANGO_TANGO_ALLOWLIST_PHASE_MAX_PER_WALLET
    ELSE IF phase = "PUBLIC" THEN MANGO_TANGO_PUBLIC_PHASE_MAX_PER_WALLET
    ELSE 0

is_on_allowlist(address) == Normalize(address) \in allowlist

\* mutant of AddAll: entries are stored as given, not normalized
RECURSIVE AddAll_raw(_, _)
AddAll_raw(set, addresses) ==
    IF addresses = <<>> THEN set
    ELSE AddAll_raw(set \cup {Head(addresses)}, Tail(addresses))

\* add_to_allowlist's loop: the set after adding every entry of the list
RECURSIVE AddAll(_, _)
AddAll(set, addresses) ==
    IF addresses = <<>> THEN set
    ELSE AddAll(set \cup {Normalize(Head(addresses))}, Tail(addresses))

add_to_allowlist(addresses) ==
    /\ Budget
    /\ allowlist' = AddAll(allowlist, addresses)
    /\ event_log' = emit(event_log, "AllowlistUpdated", [count |-> Len(addresses)])
    /\ last' = Call("add_to_allowlist", "none", <<>>)
    /\ calls_left' = calls_left - 1
    /\ UNCHANGED concurrent
    /\ UNCHANGED <<next_token_id, total_minted, mint_count_per_wallet, phase,
                   metadata_store, owner_of, reveal_ready_at, now>>

remove_from_allowlist(address) ==
    /\ Budget
    /\ allowlist' = allowlist \ {Normalize(address)}
    /\ event_log' = emit(event_log, "AllowlistUpdated", [removed |-> address])
    /\ last' = Call("remove_from_allowlist", "none", <<>>)
    /\ calls_left' = calls_left - 1
    /\ UNCHANGED concurrent
    /\ UNCHANGED <<next_token_id, total_minted, mint_count_per_wallet, phase,
                   metadata_store, owner_of, reveal_ready_at, now>>

\* mutant of can_mint: the wallet-limit check is missing
can_mint_no_wallet_limit(address, quantity, value_wei) ==
    IF phase = "CLOSED" THEN <<FALSE, <<REASON_CLOSED>> >>
    ELSE IF phase = "SOLD_OUT" THEN <<FALSE, <<REASON_SOLD_OUT>> >>
    ELSE IF total_minted + quantity > MANGO_TANGO_MAX_SUPPLY
    THEN <<FALSE, <<REASON_SUPPLY>> >>
    ELSE IF value_wei < get_mint_price_wei * quantity THEN <<FALSE, <<REASON_VALUE>> >>
    ELSE IF phase = "ALLOWLIST" /\ ~is_on_allowlist(address)
    THEN <<FALSE, <<REASON_ALLOWLIST>> >>
    ELSE <<TRUE, <<>> >>

\* mutant of can_mint: the wallet limit is checked before the allowlist
can_mint_wallet_first(address, quantity, value_wei) ==
    IF phase = "CLOSED" THEN <<FALSE, <<REASON_CLOSED>> >>
    ELSE IF phase = "SOLD_OUT" THEN <<FALSE, <<REASON_SOLD_OUT>> >>
    ELSE IF total_minted + quantity > MANGO_TANGO_MAX_SUPPLY
    THEN <<FALSE, <<REASON_SUPPLY>> >>
    ELSE IF value_wei < get_mint_price_wei * quantity THEN <<FALSE, <<REASON_VALUE>> >>
    ELSE IF DictGet(mint_count_per_wallet, Normalize(address), 0) + quantity
              > get_max_per_wallet
    THEN <<FALSE, <<REASON_WALLET>> >>
    ELSE IF phase = "ALLOWLIST" /\ ~is_on_allowlist(address)
    THEN <<FALSE, <<REASON_ALLOWLIST>> >>
    ELSE <<TRUE, <<>> >>

\* mutant of can_mint: the remaining supply is not checked
can_mint_no_supply(address, quantity, value_wei) ==
    IF phase = "CLOSED" THEN <<FALSE, <<REASON_CLOSED>> >>
    ELSE IF phase = "SOLD_OUT" THEN <<FALSE, <<REASON_SOLD_OUT>> >>
    ELSE IF value_wei < get_mint_price_wei * quantity THEN <<FALSE, <<REASON_VALUE>> >>
    ELSE IF phase = "ALLOWLIST" /\ ~is_on_allowlist(address)
    THEN <<FALSE, <<REASON_ALLOWLIST>> >>
    ELSE IF DictGet(mint_count_per_wallet, Normalize(address), 0) + quantity
              > get_max_per_wallet
    THEN <<FALSE, <<REASON_WALLET>> >>
    ELSE <<TRUE, <<>> >>

\* can_mint(address, quantity, value_wei) -> <<ok, reason>>
can_mint(address, quantity, value_wei) ==
    IF phase = "CLOSED" THEN <<FALSE, <<REASON_CLOSED>> >>
    ELSE IF phase = "SOLD_OUT" THEN <<FALSE, <<REASON_SOLD_OUT>> >>
    ELSE IF total_minted + quantity > MANGO_TANGO_MAX_SUPPLY
    THEN <<FALSE, <<REASON_SUPPLY>> >>
    ELSE LET required == get_mint_price_wei * quantity IN
    IF value_wei < required THEN <<FALSE, <<REASON_VALUE>> >>
    ELSE LET current == DictGet(mint_count_per_wallet, Normalize(address), 0)
             limit == get_max_per_wallet IN
    IF phase = "ALLOWLIST" /\ ~is_on_allowlist(address)
    THEN <<FALSE, <<REASON_ALLOWLIST>> >>
    ELSE IF current + quantity > limit THEN <<FALSE, <<REASON_WALLET>> >>
    ELSE <<TRUE, <<>> >>

\* mint, lines 323-336: the exception class raised before anything is
\* allocated, or "none"
mint_raises(to_address, quantity, value_wei) ==
    LET r == can_mint(to_address, quantity, value_wei)
        ok == r[1]
        err == IF r[2] = <<>> THEN <<>> ELSE r[2][1]   \* (err or "")
        required == get_mint_price_wei * quantity
        key == Normalize(to_address)
        current == DictGet(mint_count_per_wallet, key, 0)
        limit == get_max_per_wallet
    IN  IF ~ok
        THEN IF Contains(err, NEEDLE_EXCEED)
             THEN "MangoTangoMintCapReachedError"
             ELSE "MangoTangoWalletLimitError"
        ELSE IF value_wei < required THEN "MangoTangoInsufficientValueError"
        ELSE IF phase = "ALLOWLIST" /\ ~is_on_allowlist(to_address)
        THEN "MangoTangoNotAllowedError"
        ELSE IF current + quantity > limit THEN "MangoTangoWalletLimitError"
        ELSE "none"

\* mutant of mint_loop: the owner of the new token is not recorded
RECURSIVE mint_loop_no_owner(_, _, _, _)
mint_loop_no_owner(s, to_address, n, clock) ==
    IF n <= 0 THEN s
    ELSE IF s.total_minted >= MANGO_TANGO_MAX_SUPPLY THEN s
    ELSE LET tid == s.next_token_id IN
         mint_loop_no_owner(
           [ next_token_id |-> s.next_token_id + 1,
             total_minted |-> s.total_minted + 1,
             owner_of |-> s.owner_of,
             reveal_ready_at |-> DictSet(s.reveal_ready_at, tid, Head(clock) + MANGO_TANGO_REVEAL_DELAY_SEC),
             metadata_store |-> DictSet(s.metadata_store, tid, build_token_metadata(tid, FALSE, Head(clock))),
             minted_ids |-> Append(s.minted_ids, tid),
             event_log |-> emit(s.event_log, "MintRequested",
                                [tokenId |-> tid, to |-> to_address, valueWei |-> get_mint_price_wei]) ],
           to_address, n - 1, Tail(clock))

\* mutant of mint_loop: next_token_id is advanced once per call, after the
\* loop, so a batch hands out the same id repeatedly
RECURSIVE mint_loop_reuse_id(_, _, _, _)
mint_loop_reuse_id(s, to_address, n, clock) ==
    IF n <= 0 THEN [s EXCEPT !.next_token_id = IF s.minted_ids = <<>> THEN @ ELSE @ + 1]
    ELSE IF s.total_minted >= MANGO_TANGO_MAX_SUPPLY
    THEN [s EXCEPT !.next_token_id = IF s.minted_ids = <<>> THEN @ ELSE @ + 1]
    ELSE LET tid == s.next_token_id IN
         mint_loop_reuse_id(
           [ next_token_id |-> s.next_token_id,
             total_minted |-> s.total_minted + 1,
             owner_of |-> DictSet(s.owner_of, tid, to_address),
             reveal_ready_at |-> DictSet(s.reveal_ready_at, tid, Head(clock) + MANGO_TANGO_REVEAL_DELAY_SEC),
             metadata_store |-> DictSet(s.metadata_store, tid, build_token_metadata(tid, FALSE, Head(clock))),
             minted_ids |-> Append(s.minted_ids, tid),
             event_log |-> emit(s.event_log, "MintRequested",
                                [tokenId |-> tid, to |-> to_address, valueWei |-> get_mint_price_wei]) ],
           to_address, n - 1, Tail(clock))

\* mutant of mint_loop: the reveal-ready timestamp of the new token is not
\* recorded
RECURSIVE mint_loop_no_stamp(_, _, _, _)
mint_loop_no_stamp(s, to_address, n, clock) ==
    IF n <= 0 THEN s
    ELSE IF s.total_minted >= MANGO_TANGO_MAX_SUPPLY THEN s
    ELSE LET tid == s.next_token_id IN
         mint_loop_no_stamp(
           [ next_token_id |-> s.next_token_id + 1,
             total_minted |-> s.total_minted + 1,
             owner_of |-> DictSet(s.owner_of, tid, to_address),
             reveal_ready_at |-> s.reveal_ready_at,
             metadata_store |-> DictSet(s.metadata_store, tid, build_token_metadata(tid, FALSE, Head(clock))),
             minted_ids |-> Append(s.minted_ids, tid),
             event_log |-> emit(s.event_log, "MintRequested",
                                [tokenId |-> tid, to |-> to_address, valueWei |-> get_mint_price_wei]) ],
           to_address, n - 1, Tail(clock))

\* mutant of mint_loop: the event carries the wallet key in place of the
\* recipient as given
RECURSIVE mint_loop_logs_key(_, _, _, _)
mint_loop_logs_key(s, to_address, n, clock) ==
    IF n <= 0 THEN s
    ELSE IF s.total_minted >= MANGO_TANGO_MAX_SUPPLY THEN s
    ELSE LET tid == s.next_token_id IN
         mint_loop_logs_key(
           [ next_token_id |-> s.next_token_id + 1,
             total_minted |-> s.total_minted + 1,
             owner_of |-> DictSet(s.owner_of, tid, to_address),
             reveal_ready_at |-> DictSet(s.reveal_ready_at, tid, Head(clock) + MANGO_TANGO_REVEAL_DELAY_SEC),
             metadata_store |-> DictSet(s.metadata_store, tid, build_token_metadata(tid, FALSE, Head(clock))),
             minted_ids |-> Append(s.minted_ids, tid),
             event_log |-> emit(s.event_log, "MintRequested",
                                [tokenId |-> tid, to |-> Normalize(to_address),
                                 valueWei |-> get_mint_price_wei]) ],
           to_address, n - 1, Tail(clock))

\* mint, lines 338-350: n more iterations of "for _ in range(quantity)" on
\* the fields the loop writes; each iteration that allocates reads time.time()
\* once (line 346), and clock lists the readings still to come
RECURSIVE mint_loop(_, _, _, _)
mint_loop(s, to_address, n, clock) ==
    IF n <= 0 THEN s
    ELSE IF s.total_minted >= MANGO_TANGO_MAX_SUPPLY THEN s
    ELSE LET tid == s.next_token_id IN
         mint_loop(
           [ next_token_id |-> s.next_token_id + 1,
             total_minted |-> s.total_minted + 1,
             owner_of |-> DictSet(s.owner_of, tid, to_address),
             reveal_ready_at |-> DictSet(s.reveal_ready_at, tid, Head(clock) + MANGO_TANGO_REVEAL_DELAY_SEC),
             metadata_store |-> DictSet(s.metadata_store, tid, build_token_metadata(tid, FALSE, Head(clock))),
             minted_ids |-> Append(s.minted_ids, tid),
             event_log |-> emit(s.event_log, "MintRequested",
                                [tokenId |-> tid, to |-> to_address, valueWei |-> get_mint_price_wei]) ],
           to_address, n - 1, Tail(clock))

\* mutant of mint_rejected: the wallet's counter entry is created before the
\* checks, so a rejected call leaves a trace
mint_rejected_touching_wallet(to_address, raised) ==
    /\ Budget
    /\ last' = Call("mint", raised, <<>>)
    /\ calls_left' = calls_left - 1
    /\ UNCHANGED concurrent
    /\ mint_count_per_wallet' =
         DictSet(mint_count_per_wallet, Normalize(to_address),
                 DictGet(mint_count_per_wallet, Normalize(to_address), 0))
    /\ UNCHANGED <<next_token_id, total_minted, allowlist, phase, metadata_store,
                   owner_of, reveal_ready_at, event_log, now>>

\* mint, lines 325-336: a raise leaves mint before any assignment
mint_rejected(to_address, raised) ==
    /\ Budget
    /\ last' = Call("mint", raised, <<>>)
    /\ calls_left' = calls_left - 1
    /\ UNCHANGED concurrent
    /\ UNCHANGED <<ledger, now>>

\* mutant of mint: exhausting the supply does not move the phase to SOLD_OUT
mint_keeps_phase(to_address, quantity, value_wei, clock) ==
    LET raised == mint_raises(to_address, quantity, value_wei) IN
    IF raised # "none"
    THEN mint_rejected(to_address, raised)
    ELSE LET key == Normalize(to_address)
             s == mint_loop([ next_token_id |-> next_token_id,
                              total_minted |-> total_minted,
                              owner_of |-> owner_of,
                              reveal_ready_at |-> reveal_ready_at,
                              metadata_store |-> metadata_store,
                              minted_ids |-> <<>>,
                              event_log |-> event_log ],
                            to_address, quantity, clock)
         IN  /\ Budget
             /\ next_token_id' = s.next_token_id
             /\ total_minted' = s.total_minted
             /\ owner_of' = s.owner_of
             /\ reveal_ready_at' = s.reveal_ready_at
             /\ metadata_store' = s.metadata_store
             /\ mint_count_per_wallet' =
                  DictSet(mint_count_per_wallet, key,
                          DictGet(mint_count_per_wallet, key, 0) + Len(s.minted_ids))
             /\ phase' = phase
             /\ event_log' = s.event_log
             /\ last' = Call("mint", "none", s.minted_ids)
             /\ calls_left' = calls_left - 1
             /\ UNCHANGED concurrent
             /\ now' = LastRead(clock, Len(s.minted_ids))
             /\ UNCHANGED allowlist

\* MangoTangoMinter.mint(to_address, quantity, value_wei)
mint(to_address, quantity, value_wei, clock) ==
    LET raised == mint_raises(to_address, quantity, value_wei) IN
    IF raised # "none"
    THEN mint_rejected(to_address, raised)
    ELSE LET key == Normalize(to_address)
             s == mint_loop([ next_token_id |-> next_token_id,
                              total_minted |-> total_minted,
                              owner_of |-> owner_of,
                              reveal_ready_at |-> reveal_ready_at,
                              metadata_store |-> metadata_store,
                              minted_ids |-> <<>>,
                              event_log |-> event_log ],
                            to_address, quantity, clock)
             sold == s.total_minted >= MANGO_TANGO_MAX_SUPPLY
         IN  /\ Budget
             /\ next_token_id' = s.next_token_id
             /\ total_minted' = s.total_minted
             /\ owner_of' = s.owner_of
             /\ reveal_ready_at' = s.reveal_ready_at
             /\ metadata_store' = s.metadata_store
             /\ mint_count_per_wallet' =
                  DictSet(mint_count_per_wallet, key,
                          DictGet(mint_count_per_wallet, key, 0) + Len(s.minted_ids))
             /\ phase' = IF sold THEN "SOLD_OUT" ELSE phase
             /\ event_log' = IF sold
                             THEN emit(s.event_log, "PhaseAdvanced", [phase |-> "SOLD_OUT"])
                             ELSE s.event_log
             /\ last' = Call("mint", "none", s.minted_ids)
             /\ calls_left' = calls_left - 1
             /\ UNCHANGED concurrent
             /\ now' = LastRead(clock, Len(s.minted_ids))
             /\ UNCHANGED allowlist

\* mutant of reveal: the reveal-ready timestamp is not consulted
reveal_ignores_delay(token_id, clock) ==
    IF token_id \notin DOMAIN metadata_store
    THEN /\ Budget
         /\ last' = Call("reveal", "MangoTangoInvalidTokenIdError", <<>>)
         /\ calls_left' = calls_left - 1
         /\ UNCHANGED concurrent
         /\ UNCHANGED <<ledger, now>>
    ELSE LET meta == build_token_metadata(token_id, TRUE, clock[2]) IN
         /\ Budget
         /\ metadata_store' = DictSet(metadata_store, token_id, meta)
         /\ event_log' = emit(event_log, "TokenRevealed", [tokenId |-> token_id])
         /\ last' = Call("reveal", "none", meta)
         /\ calls_left' = calls_left - 1
         /\ UNCHANGED concurrent
         /\ now' = clock[2]
         /\ UNCHANGED <<next_token_id, total_minted, allowlist, mint_count_per_wallet,
                        phase, owner_of, reveal_ready_at>>

\* mutant of reveal: a repeated reveal toggles the token back to unrevealed
reveal_toggles(token_id, clock) ==
    IF token_id \notin DOMAIN metadata_store
    THEN /\ Budget
         /\ last' = Call("reveal", "MangoTangoInvalidTokenIdError", <<>>)
         /\ calls_left' = calls_left - 1
         /\ UNCHANGED concurrent
         /\ UNCHANGED <<ledger, now>>
    ELSE IF clock[1] < DictGet(reveal_ready_at, token_id, 0)
    THEN /\ Budget
         /\ last' = Call("reveal", "MangoTangoRevealNotReadyError", <<>>)
         /\ calls_left' = calls_left - 1
         /\ now' = clock[1]
         /\ UNCHANGED concurrent
         /\ UNCHANGED ledger
    ELSE LET meta == build_token_metadata(token_id, ~metadata_store[token_id].revealed, clock[2]) IN
         /\ Budget
         /\ metadata_store' = DictSet(metadata_store, token_id, meta)
         /\ event_log' = emit(event_log, "TokenRevealed", [tokenId |-> token_id])
         /\ last' = Call("reveal", "none", meta)
         /\ calls_left' = calls_left - 1
         /\ UNCHANGED concurrent
         /\ now' = clock[2]
         /\ UNCHANGED <<next_token_id, total_minted, allowlist, mint_count_per_wallet,
                        phase, owner_of, reveal_ready_at>>

\* mutant of reveal: revealing restarts the token's reveal-ready timestamp
reveal_restamps(token_id, clock) ==
    IF token_id \notin DOMAIN metadata_store
    THEN /\ Budget
         /\ last' = Call("reveal", "MangoTangoInvalidTokenIdError", <<>>)
         /\ calls_left' = calls_left - 1
         /\ UNCHANGED concurrent
         /\ UNCHANGED <<ledger, now>>
    ELSE IF clock[1] < DictGet(reveal_ready_at, token_id, 0)
    THEN /\ Budget
         /\ last' = Call("reveal", "MangoTangoRevealNotReadyError", <<>>)
         /\ calls_left' = calls_left - 1
         /\ now' = clock[1]
         /\ UNCHANGED concurrent
         /\ UNCHANGED ledger
    ELSE LET meta == build_token_metadata(token_id, TRUE, clock[2]) IN
         /\ Budget
         /\ metadata_store' = DictSet(metadata_store, token_id, meta)
         /\ reveal_ready_at' = DictSet(reveal_ready_at, token_id, clock[2] + MANGO_TANGO_REVEAL_DELAY_SEC)
         /\ event_log' = emit(event_log, "TokenRevealed", [tokenId |-> token_id])
         /\ last' = Call("reveal", "none", meta)
         /\ calls_left' = calls_left - 1
         /\ UNCHANGED concurrent
         /\ now' = clock[2]
         /\ UNCHANGED <<next_token_id, total_minted, allowlist, mint_count_per_wallet,
                        phase, owner_of>>

\* MangoTangoMinter.reveal(token_id): time.time() is read at line 371 for the
\* guard (clock[1]) and at line 220 for revealed_at (clock[2])
reveal(token_id, clock) ==
    IF token_id \notin DOMAIN metadata_store
    THEN /\ Budget
         /\ last' = Call("reveal", "MangoTangoInvalidTokenIdError", <<>>)
         /\ calls_left' = calls_left - 1
         /\ UNCHANGED concurrent
         /\ UNCHANGED <<ledger, now>>
    ELSE IF clock[1] < DictGet(reveal_ready_at, token_id, 0)
    THEN /\ Budget
         /\ last' = Call("reveal", "MangoTangoRevealNotReadyError", <<>>)
         /\ calls_left' = calls_left - 1
         /\ now' = clock[1]
         /\ UNCHANGED concurrent
         /\ UNCHANGED ledger
    ELSE LET meta == build_token_metadata(token_id, TRUE, clock[2]) IN
         /\ Budget
         /\ metadata_store' = DictSet(metadata_store, token_id, meta)
         /\ event_log' = emit(event_log, "TokenRevealed", [tokenId |-> token_id])
         /\ last' = Call("reveal", "none", meta)
         /\ calls_left' = calls_left - 1
         /\ UNCHANGED concurrent
         /\ now' = clock[2]
         /\ UNCHANGED <<next_token_id, total_minted, allowlist, mint_count_per_wallet,
                        phase, owner_of, reveal_ready_at>>

advance_to_public ==
    /\ Budget
    /\ phase' = "PUBLIC"
    /\ event_log' = emit(event_log, "PhaseAdvanced", [phase |-> "PUBLIC"])
    /\ last' = Call("advance_to_public", "none", <<>>)
    /\ calls_left' = calls_left - 1
    /\ UNCHANGED concurrent
    /\ UNCHANGED <<next_token_id, total_minted, allowlist, mint_count_per_wallet,
                   metadata_store, owner_of, reveal_ready_at, now>>

\* the clock of time.time() advances between calls (inside a call it moves
\* as the call's clock readings say)
tick ==
    /\ now < MaxTime
    /\ now' = now + 1
    /\ UNCHANGED <<ledger, last, calls_left, concurrent>>

\* token ids a caller may name: the minted ones and the next, unminted one
TokenIds == 1..(MANGO_TANGO_MAX_SUPPLY + 1)

\* the calls with every kind of argument; the clock stands still during a
\* call and moves between calls (SpecSession lets it move inside a call)
Next ==
    \/ \E a \in Addresses, q \in Quantities :
         \E v \in OfferedValues(q) : mint(a, q, v, Steady(now))
    \/ \E l \in AddressLists : add_to_allowlist(l)
    \/ \E a \in Addresses : remove_from_allowlist(a)
    \/ advance_to_public
    \/ \E t \in TokenIds : reveal(t, Steady(now))
    \/ tick

Spec == Init /\ [][Next]_vars

\* mutant of balance_of: owners are compared as stored, not normalized
balance_of_raw(address) ==
    Cardinality({tid \in DOMAIN owner_of : owner_of[tid] = Normalize(address)})

\* MangoTangoMinter.balance_of(address)
balance_of(address) ==
    LET key == Normalize(address) IN
    Cardinality({tid \in DOMAIN owner_of : Normalize(owner_of[tid]) = key})

(***************************************************************************)
(* The views owner_of and get_metadata, and RevealScheduler.               *)
(***************************************************************************)
\* mutant of call_owner_of: an unknown id yields no owner instead of raising
call_owner_of_lenient(token_id) ==
    /\ Budget
    /\ last' = Call("owner_of", "none", DictGet(owner_of, token_id, <<>>))
    /\ calls_left' = calls_left - 1
    /\ UNCHANGED concurrent
    /\ UNCHANGED <<ledger, now>>

\* MangoTangoMinter.owner_of(token_id)
call_owner_of(token_id) ==
    /\ Budget
    /\ last' = IF token_id \notin DOMAIN owner_of
                THEN Call("owner_of", "MangoTangoInvalidTokenIdError", <<>>)
                ELSE Call("owner_of", "none", owner_of[token_id])
    /\ calls_left' = calls_left - 1
    /\ UNCHANGED concurrent
    /\ UNCHANGED <<ledger, now>>

get_metadata(token_id) ==
    /\ Budget
    /\ last' = IF token_id \notin DOMAIN metadata_store
                THEN Call("get_metadata", "MangoTangoInvalidTokenIdError", <<>>)
                ELSE Call("get_metadata", "none", metadata_store[token_id])
    /\ calls_left' = calls_left - 1
    /\ UNCHANGED concurrent
    /\ UNCHANGED <<ledger, now>>

\* list(d.keys()) of a dict whose keys were inserted in increasing order, as
\* mint inserts token ids
RECURSIVE Keys(_)
Keys(d) ==
    IF DOMAIN d = {} THEN <<>>
    ELSE LET k == CHOOSE x \in DOMAIN d : \A y \in DOMAIN d : x <= y IN
         <<k>> \o Keys([x \in DOMAIN d \ {k} |-> d[x]])

\* RevealScheduler.is_reveal_ready(token_id), time.time() = t
is_reveal_ready(token_id, t) ==
    IF token_id \notin DOMAIN reveal_ready_at THEN FALSE
    ELSE t >= reveal_ready_at[token_id]

\* reveal_all_ready's loop over the remaining keys tids, on the fields that
\* reveal writes; a RevealNotReady raised by reveal is swallowed.  clock
\* lists the readings of time.time() still to come: a token in the
\* reveal-ready map costs one (line 529), a ready and unrevealed one a
\* second (the guard of reveal, line 371), and a revealed one a third
\* (revealed_at, line 220); s.now is the last reading made
RECURSIVE reveal_loop(_, _, _)
reveal_loop(s, tids, clock) ==
    IF tids = <<>> THEN s
    ELSE LET tid == Head(tids) IN
         IF tid \notin DOMAIN reveal_ready_at
         THEN reveal_loop(s, Tail(tids), clock)
         ELSE IF is_reveal_ready(tid, clock[1]) /\ ~s.metadata_store[tid].revealed
         THEN IF clock[2] < DictGet(reveal_ready_at, tid, 0)
              THEN reveal_loop([s EXCEPT !.now = clock[2]], Tail(tids),
                               SubSeq(clock, 3, Len(clock)))
              ELSE reveal_loop(
                     [ metadata_store |->
                         DictSet(s.metadata_store, tid,
                                 build_token_metadata(tid, TRUE, clock[3])),
                       event_log |-> emit(s.event_log, "TokenRevealed", [tokenId |-> tid]),
                       revealed |-> Append(s.revealed, tid),
                       now |-> clock[3] ],
                     Tail(tids), SubSeq(clock, 4, Len(clock)))
         ELSE reveal_loop([s EXCEPT !.now = clock[1]], Tail(tids), Tail(clock))

\* RevealScheduler.reveal_all_ready()
reveal_all_ready(clock) ==
    LET s == reveal_loop([ metadata_store |-> metadata_store,
                           event_log |-> event_log,
                           revealed |-> <<>>,
                           now |-> now ],
                         Keys(metadata_store), clock)
    IN  /\ Budget
        /\ metadata_store' = s.metadata_store
        /\ event_log' = s.event_log
        /\ last' = Call("reveal_all_ready", "none", s.revealed)
        /\ calls_left' = calls_left - 1
        /\ now' = s.now
        /\ UNCHANGED concurrent
        /\ UNCHANGED <<next_token_id, total_minted, allowlist, mint_count_per_wallet,
                       phase, owner_of, reveal_ready_at>>

(***************************************************************************)
(* A longer session of two wallets that pay the exact price, one of them   *)
(* allowlisted under another spelling of its address: more calls than Spec *)
(* explores, with the views and the reveal scheduler among them.           *)
(***************************************************************************)
InitSession == Constructed /\ calls_left = MaxCallsSession

\* the minting callers: the allowlisted wallet under its other spelling,
\* and a second wallet
SessionAddresses == {ADDR_A_VARIANT, ADDR_B}
SessionQuantities == Quantities \ {0}

NextSession ==
    \/ \E a \in SessionAddresses, q \in SessionQuantities, clock \in Clocks :
         mint(a, q, MANGO_TANGO_MINT_PRICE_WEI * q, clock)
    \/ add_to_allowlist(<<ADDR_A>>)
    \/ advance_to_public
    \/ \E t \in TokenIds, clock \in Clocks : reveal(t, clock)
    \/ \E t \in TokenIds : call_owner_of(t)
    \/ \E t \in TokenIds : get_metadata(t)
    \/ \E clock \in Clocks : reveal_all_ready(clock)
    \/ tick

SpecSession == InitSession /\ [][NextSession]_vars

(***************************************************************************)
(* mint on a host that does not serialize calls: two threads run mint on   *)
(* the same ledger without a lock.  The interpreter hands the processor to *)
(* another thread only after a call instruction or at the backward jump of *)
(* a loop, so a thread's step is the code between two such points; steps   *)
(* that touch nothing but the thread's locals are joined to the step       *)
(* before them.  A thread's frame holds the locals of mint and of the      *)
(* can_mint it calls, and pc names the step it runs next.  Each thread      *)
(* makes one mint call; when the call has ended, returned or raised, the   *)
(* thread's frame is Returned.                                             *)
(***************************************************************************)
InFlight(th) == inflight[th] # <<>> /\ inflight[th][1].pc # "returned"
Frame(th) == inflight[th][1]

\* the frame of a mint call that has passed lines 305-313 of can_mint
NewFrame(to_address, quantity, value_wei) ==
    [ pc |-> "can_mint_count", to_address |-> to_address, quantity |-> quantity,
      value_wei |-> value_wei, current |-> 0, limit |-> 0, left |-> 0, tid |-> 0,
      stamp |-> 0, minted_ids |-> <<>>, raised |-> "none" ]

\* the frame of a thread whose mint call has ended
Returned == [NewFrame(ADDR_A, 0, 0) EXCEPT !.pc = "returned"]

\* mint, line 325: the exception class chosen for can_mint's reason
kind_of_reason(err) ==
    IF Contains(err, NEEDLE_EXCEED) THEN "MangoTangoMintCapReachedError"
    ELSE "MangoTangoWalletLimitError"

\* mutant of exceeds_limit: no quantity is over the limit
exceeds_limit_never(current, quantity, limit) == FALSE

\* can_mint, line 318, and mint, line 335
exceeds_limit(current, quantity, limit) == current + quantity > limit

\* the thread moves on to another step with its locals f
mint_goes_on(th, f) ==
    /\ inflight' = [inflight EXCEPT ![th] = <<f>>]
    /\ UNCHANGED <<ledger, now, last, calls_left, overlapped>>

\* the locals of a call that has decided to raise: the exception is built by
\* a call of its class, so the raise itself is a later step
Raising(f, raised) == [f EXCEPT !.raised = raised, !.pc = "raise"]

\* a mint call that still has steps on the ledger to make
Running(th) == InFlight(th) /\ Frame(th).pc \notin {"raise", "return"}

\* mint, lines 325, 328, 330 and 336: the exception built is raised, and
\* the call ends
mint_raise(th) ==
    /\ InFlight(th) /\ Frame(th).pc = "raise"
    /\ last' = [ op |-> "mint", raised |-> Frame(th).raised, ret |-> <<>>,
                 args |-> <<Frame(th).to_address, Frame(th).quantity>> ]
    /\ inflight' = [inflight EXCEPT ![th] = <<Returned>>]
    /\ UNCHANGED <<ledger, now, calls_left, overlapped>>

\* mint is called: lines 322-323 and can_mint, lines 305-313 (the phase and
\* _total_minted are read; the price is the same in every phase); a reason
\* returned by can_mint sends the call to the raise of line 325
mint_enter(th, to_address, quantity, value_wei) ==
    LET err == IF phase = "CLOSED" THEN <<REASON_CLOSED>>
               ELSE IF phase = "SOLD_OUT" THEN <<REASON_SOLD_OUT>>
               ELSE IF total_minted + quantity > MANGO_TANGO_MAX_SUPPLY
               THEN <<REASON_SUPPLY>>
               ELSE IF value_wei < get_mint_price_wei * quantity THEN <<REASON_VALUE>>
               ELSE <<>>
    IN  /\ inflight[th] = <<>>
        /\ Budget
        /\ calls_left' = calls_left - 1
        /\ UNCHANGED <<ledger, now, last>>
        /\ IF err # <<>>
           THEN /\ inflight' = [inflight EXCEPT ![th] =
                                  <<Raising(NewFrame(to_address, quantity, value_wei),
                                            kind_of_reason(err[1]))>>]
                /\ UNCHANGED overlapped
           ELSE /\ inflight' = [inflight EXCEPT ![th] =
                                  <<NewFrame(to_address, quantity, value_wei)>>]
                /\ overlapped' = (overlapped \/ \E o \in Threads \ {th} : Running(o))

\* can_mint, line 314: the wallet's count is read
can_mint_count(th) ==
    /\ InFlight(th) /\ Frame(th).pc = "can_mint_count"
    /\ mint_goes_on(th, [Frame(th) EXCEPT
           !.current = DictGet(mint_count_per_wallet, Normalize(Frame(th).to_address), 0),
           !.pc = "can_mint_limit"])

\* can_mint, line 315: the limit of the phase is read
can_mint_limit(th) ==
    /\ InFlight(th) /\ Frame(th).pc = "can_mint_limit"
    /\ mint_goes_on(th, [Frame(th) EXCEPT !.limit = get_max_per_wallet,
                                          !.pc = "can_mint_phase"])

\* can_mint, line 316, left operand: the phase is read; outside the
\* Allowlist phase line 318 follows, and can_mint returns to lines 324-328
can_mint_phase(th) ==
    LET f == Frame(th) IN
    /\ InFlight(th) /\ f.pc = "can_mint_phase"
    /\ IF phase = "ALLOWLIST"
       THEN mint_goes_on(th, [f EXCEPT !.pc = "can_mint_member"])
       ELSE IF exceeds_limit(f.current, f.quantity, f.limit)
       THEN mint_goes_on(th, Raising(Frame(th), kind_of_reason(REASON_WALLET)))
       ELSE IF f.value_wei < get_mint_price_wei * f.quantity
       THEN mint_goes_on(th, Raising(Frame(th), "MangoTangoInsufficientValueError"))
       ELSE mint_goes_on(th, [f EXCEPT !.pc = "mint_phase"])

\* can_mint, line 316, right operand: the allowlist is read; line 318
\* follows, and can_mint returns to lines 324-328
can_mint_member(th) ==
    LET f == Frame(th) IN
    /\ InFlight(th) /\ f.pc = "can_mint_member"
    /\ IF ~is_on_allowlist(f.to_address)
       THEN mint_goes_on(th, Raising(Frame(th), kind_of_reason(REASON_ALLOWLIST)))
       ELSE IF exceeds_limit(f.current, f.quantity, f.limit)
       THEN mint_goes_on(th, Raising(Frame(th), kind_of_reason(REASON_WALLET)))
       ELSE IF f.value_wei < get_mint_price_wei * f.quantity
       THEN mint_goes_on(th, Raising(Frame(th), "MangoTangoInsufficientValueError"))
       ELSE mint_goes_on(th, [f EXCEPT !.pc = "mint_phase"])

\* mint, line 329, left operand: the phase is read again
mint_phase(th) ==
    /\ InFlight(th) /\ Frame(th).pc = "mint_phase"
    /\ mint_goes_on(th, [Frame(th) EXCEPT
           !.pc = IF phase = "ALLOWLIST" THEN "mint_member" ELSE "mint_count"])

\* mint, lines 329-330, right operand: the allowlist is read again
mint_member(th) ==
    /\ InFlight(th) /\ Frame(th).pc = "mint_member"
    /\ IF ~is_on_allowlist(Frame(th).to_address)
       THEN mint_goes_on(th, Raising(Frame(th), "MangoTangoNotAllowedError"))
       ELSE mint_goes_on(th, [Frame(th) EXCEPT !.pc = "mint_count"])

\* mint, lines 332-333: the wallet's count is read again
mint_count(th) ==
    /\ InFlight(th) /\ Frame(th).pc = "mint_count"
    /\ mint_goes_on(th, [Frame(th) EXCEPT
           !.current = DictGet(mint_count_per_wallet, Normalize(Frame(th).to_address), 0),
           !.pc = "mint_limit"])

\* mint, lines 334-338: the limit is read again and the wallet is
\* re-checked; the loop is entered with range(quantity) to run
mint_limit(th) ==
    LET f == Frame(th) IN
    /\ InFlight(th) /\ f.pc = "mint_limit"
    /\ IF exceeds_limit(f.current, f.quantity, get_max_per_wallet)
       THEN mint_goes_on(th, Raising(Frame(th), "MangoTangoWalletLimitError"))
       ELSE mint_goes_on(th, [f EXCEPT !.limit = get_max_per_wallet,
                                       !.left = f.quantity,
                                       !.pc = "loop"])

\* mutant of mint_allocate: the loop head does not re-check the supply
mint_allocate_unchecked(th, t) ==
    LET f == Frame(th) IN
    /\ InFlight(th) /\ f.pc = "loop"
    /\ f.left > 0
    /\ next_token_id' = next_token_id + 1
    /\ total_minted' = total_minted + 1
    /\ owner_of' = DictSet(owner_of, next_token_id, f.to_address)
    /\ inflight' = [inflight EXCEPT ![th] =
                      <<[f EXCEPT !.tid = next_token_id,
                                  !.stamp = t + MANGO_TANGO_REVEAL_DELAY_SEC,
                                  !.pc = "stamp"]>>]
    /\ now' = t
    /\ UNCHANGED <<allowlist, mint_count_per_wallet, phase, metadata_store,
                   reveal_ready_at, event_log, last, calls_left, overlapped>>

\* mint, lines 339-346: an iteration that passes the supply re-check at its
\* head takes the next id, advances both counters, records the owner and
\* reads the clock; t is the reading
mint_allocate(th, t) ==
    LET f == Frame(th) IN
    /\ InFlight(th) /\ f.pc = "loop"
    /\ f.left > 0
    /\ total_minted < MANGO_TANGO_MAX_SUPPLY
    /\ next_token_id' = next_token_id + 1
    /\ total_minted' = total_minted + 1
    /\ owner_of' = DictSet(owner_of, next_token_id, f.to_address)
    /\ inflight' = [inflight EXCEPT ![th] =
                      <<[f EXCEPT !.tid = next_token_id,
                                  !.stamp = t + MANGO_TANGO_REVEAL_DELAY_SEC,
                                  !.pc = "stamp"]>>]
    /\ now' = t
    /\ UNCHANGED <<allowlist, mint_count_per_wallet, phase, metadata_store,
                   reveal_ready_at, event_log, last, calls_left, overlapped>>

\* mint, line 346: the reveal-ready timestamp is stored
mint_stamp(th) ==
    LET f == Frame(th) IN
    /\ InFlight(th) /\ f.pc = "stamp"
    /\ reveal_ready_at' = DictSet(reveal_ready_at, f.tid, f.stamp)
    /\ inflight' = [inflight EXCEPT ![th] = <<[f EXCEPT !.pc = "metadata"]>>]
    /\ UNCHANGED <<next_token_id, total_minted, allowlist, mint_count_per_wallet, phase,
                   metadata_store, owner_of, event_log, now, last, calls_left,
                   overlapped>>

\* mint, lines 347-349: the unrevealed metadata is stored and the id joins
\* minted_ids
mint_metadata(th) ==
    LET f == Frame(th) IN
    /\ InFlight(th) /\ f.pc = "metadata"
    /\ metadata_store' = DictSet(metadata_store, f.tid,
                                 build_token_metadata(f.tid, FALSE, now))
    /\ inflight' = [inflight EXCEPT ![th] =
                      <<[f EXCEPT !.minted_ids = Append(f.minted_ids, f.tid),
                                  !.pc = "event"]>>]
    /\ UNCHANGED <<next_token_id, total_minted, allowlist, mint_count_per_wallet, phase,
                   owner_of, reveal_ready_at, event_log, now, last, calls_left,
                   overlapped>>

\* mint, line 350: the MintRequested event is appended, and the iteration
\* ends
mint_emit(th) ==
    LET f == Frame(th) IN
    /\ InFlight(th) /\ f.pc = "event"
    /\ event_log' = emit(event_log, "MintRequested",
                         [tokenId |-> f.tid, to |-> f.to_address,
                          valueWei |-> get_mint_price_wei])
    /\ inflight' = [inflight EXCEPT ![th] =
                      <<[f EXCEPT !.left = f.left - 1, !.pc = "loop"]>>]
    /\ UNCHANGED <<next_token_id, total_minted, allowlist, mint_count_per_wallet, phase,
                   metadata_store, owner_of, reveal_ready_at, now, last, calls_left,
                   overlapped>>

\* mint, lines 339-341 and 352, right-hand side: the loop ends (range
\* exhausted, or break on exhausted supply) and the wallet's count is read
mint_loop_exit(th) ==
    LET f == Frame(th) IN
    /\ InFlight(th) /\ f.pc = "loop"
    /\ f.left = 0 \/ total_minted >= MANGO_TANGO_MAX_SUPPLY
    /\ mint_goes_on(th, [f EXCEPT
           !.current = DictGet(mint_count_per_wallet, Normalize(f.to_address), 0),
           !.pc = "count"])

\* the call returns minted_ids
mint_return(th) ==
    /\ last' = [ op |-> "mint", raised |-> "none", ret |-> Frame(th).minted_ids,
                 args |-> <<Frame(th).to_address, Frame(th).quantity>> ]
    /\ inflight' = [inflight EXCEPT ![th] = <<Returned>>]

\* mint, lines 352-354 and 356: the count read plus len(minted_ids) is
\* stored; an exhausted supply moves the phase to SOLD_OUT, otherwise the
\* call returns
mint_store_count(th) ==
    LET f == Frame(th) IN
    /\ InFlight(th) /\ f.pc = "count"
    /\ mint_count_per_wallet' =
         DictSet(mint_count_per_wallet, Normalize(f.to_address),
                 f.current + Len(f.minted_ids))
    /\ IF total_minted >= MANGO_TANGO_MAX_SUPPLY
       THEN /\ phase' = "SOLD_OUT"
            /\ inflight' = [inflight EXCEPT ![th] = <<[f EXCEPT !.pc = "sold_out"]>>]
            /\ UNCHANGED last
       ELSE /\ mint_return(th)
            /\ UNCHANGED phase
    /\ UNCHANGED <<next_token_id, total_minted, allowlist, metadata_store, owner_of,
                   reveal_ready_at, event_log, now, calls_left, overlapped>>

\* mint, line 355, and _emit, line 302: the PhaseAdvanced event is appended
mint_sold_out(th) ==
    /\ InFlight(th) /\ Frame(th).pc = "sold_out"
    /\ event_log' = emit(event_log, "PhaseAdvanced", [phase |-> "SOLD_OUT"])
    /\ inflight' = [inflight EXCEPT ![th] = <<[Frame(th) EXCEPT !.pc = "return"]>>]
    /\ UNCHANGED <<next_token_id, total_minted, allowlist, mint_count_per_wallet, phase,
                   metadata_store, owner_of, reveal_ready_at, now, last, calls_left,
                   overlapped>>

\* mint, lines 355-356: _emit returns, and the call returns minted_ids
mint_leave(th) ==
    /\ InFlight(th) /\ Frame(th).pc = "return"
    /\ mint_return(th)
    /\ UNCHANGED <<ledger, now, calls_left, overlapped>>

InitInterleaved == Constructed /\ calls_left = MaxCallsInterleaved

\* the quantities of the calls that overlap: one token, and the Allowlist cap
InterleavedQuantities == {1, MANGO_TANGO_ALLOWLIST_PHASE_MAX_PER_WALLET}

\* what time.time() can return to a thread at line 346: the clock has
\* stood still since the last reading, or has moved on by one
Readings == {now, now + 1} \cap Times

\* no mint call is in progress
Quiet == \A th \in Threads : ~InFlight(th)

\* the steps of the two threads, and the calls made while no mint is in
\* progress, which run alone and are taken whole: the owner's two calls, and
\* a mint of the Public cap to the second wallet, which brings the supply
\* within reach of the two calls that overlap
NextInterleaved ==
    \/ \E th \in Threads, a \in SessionAddresses, q \in InterleavedQuantities :
         mint_enter(th, a, q, MANGO_TANGO_MINT_PRICE_WEI * q)
    \/ \E th \in Threads : can_mint_count(th)
    \/ \E th \in Threads : can_mint_limit(th)
    \/ \E th \in Threads : can_mint_phase(th)
    \/ \E th \in Threads : can_mint_member(th)
    \/ \E th \in Threads : mint_phase(th)
    \/ \E th \in Threads : mint_member(th)
    \/ \E th \in Threads : mint_count(th)
    \/ \E th \in Threads : mint_limit(th)
    \/ \E th \in Threads, t \in Readings : mint_allocate(th, t)
    \/ \E th \in Threads : mint_stamp(th)
    \/ \E th \in Threads : mint_metadata(th)
    \/ \E th \in Threads : mint_emit(th)
    \/ \E th \in Threads : mint_loop_exit(th)
    \/ \E th \in Threads : mint_store_count(th)
    \/ \E th \in Threads : mint_sold_out(th)
    \/ \E th \in Threads : mint_leave(th)
    \/ \E th \in Threads : mint_raise(th)
    \/ Quiet /\ add_to_allowlist(<<ADDR_A>>)
    \/ Quiet /\ advance_to_public
    \/ Quiet /\ mint(ADDR_B, MANGO_TANGO_PUBLIC_PHASE_MAX_PER_WALLET,
                    MANGO_TANGO_MINT_PRICE_WEI * MANGO_TANGO_PUBLIC_PHASE_MAX_PER_WALLET,
                    Steady(now))

SpecInterleaved == InitInterleaved /\ [][NextInterleaved]_vars

(***************************************************************************)
(* Royalty arithmetic.  Python integers are unbounded, so the product is   *)
(* exact; the inputs are kept small enough for it to be exact here too.    *)
(***************************************************************************)
\* mutant of compute_royalty_amount: the quotient is rounded up
compute_royalty_amount_ceil(sale_price_wei, bps) ==
    (sale_price_wei * bps + MANGO_TANGO_BPS_DENOM - 1) \div MANGO_TANGO_BPS_DENOM

compute_royalty_amount(sale_price_wei, bps) ==
    (sale_price_wei * bps) \div MANGO_TANGO_BPS_DENOM

\* sale prices and basis points offered to the royalty functions
SalePrices == 0..MaxSalePrice
BpsValues == {0, 1, MANGO_TANGO_ROYALTY_BPS, 3333, 5000, 9999, MANGO_TANGO_BPS_DENOM}

\* a call of compute_royalty_amount, its arguments kept with its result
call_compute_royalty_amount(sale_price_wei, bps) ==
    /\ last' = [ op |-> "compute_royalty_amount", raised |-> "none",
                 ret |-> compute_royalty_amount(sale_price_wei, bps),
                 args |-> <<sale_price_wei, bps>> ]
    /\ UNCHANGED <<ledger, now, calls_left, concurrent>>

\* total_royalty_at_price(minter, sale_price_wei): the minter's royalty bps
total_royalty_at_price(sale_price_wei) ==
    /\ last' = [ op |-> "total_royalty_at_price", raised |-> "none",
                 ret |-> compute_royalty_amount(sale_price_wei, MANGO_TANGO_ROYALTY_BPS),
                 args |-> <<sale_price_wei, MANGO_TANGO_ROYALTY_BPS>> ]
    /\ UNCHANGED <<ledger, now, calls_left, concurrent>>

NextRoyalty ==
    \/ \E p \in SalePrices, b \in BpsValues : call_compute_royalty_amount(p, b)
    \/ \E p \in SalePrices : total_royalty_at_price(p)

SpecRoyalty == Init /\ [][NextRoyalty]_vars

(***************************************************************************)
(* The ordered checks of section 4.4, stated on the ledger state.          *)
(***************************************************************************)
PhaseCheckFails == phase \in {"CLOSED", "SOLD_OUT"}
SupplyCheckFails(quantity) == total_minted + quantity > MANGO_TANGO_MAX_SUPPLY
PaymentCheckFails(quantity, value_wei) == value_wei < MANGO_TANGO_MINT_PRICE_WEI * quantity
AllowlistCheckFails(address) == phase = "ALLOWLIST" /\ Normalize(address) \notin allowlist
ActivePhaseCap ==
    CASE phase = "ALLOWLIST" -> MANGO_TANGO_ALLOWLIST_PHASE_MAX_PER_WALLET
      [] phase = "PUBLIC" -> MANGO_TANGO_PUBLIC_PHASE_MAX_PER_WALLET
      [] OTHER -> 0
WalletCount(address) == DictGet(mint_count_per_wallet, Normalize(address), 0)
WalletCheckFails(address, quantity) == WalletCount(address) + quantity > ActivePhaseCap

\* the number of the first failing check, 0 when none fails
FirstFailingCheck(address, quantity, value_wei) ==
    IF PhaseCheckFails THEN 1
    ELSE IF SupplyCheckFails(quantity) THEN 2
    ELSE IF PaymentCheckFails(quantity, value_wei) THEN 3
    ELSE IF AllowlistCheckFails(address) THEN 4
    ELSE IF WalletCheckFails(address, quantity) THEN 5
    ELSE 0

ReasonOfCheck(k) ==
    CASE k = 1 -> IF phase = "CLOSED" THEN REASON_CLOSED ELSE REASON_SOLD_OUT
      [] k = 2 -> REASON_SUPPLY
      [] k = 3 -> REASON_VALUE
      [] k = 4 -> REASON_ALLOWLIST
      [] k = 5 -> REASON_WALLET

\* the error kind section 7 assigns to each check
KindOfCheck(k) ==
    CASE k = 1 -> "MangoTangoPhaseClosedError"
      [] k = 2 -> "MangoTangoMintCapReachedError"
      [] k = 3 -> "MangoTangoInsufficientValueError"
      [] k = 4 -> "MangoTangoNotAllowedError"
      [] k = 5 -> "MangoTangoWalletLimitError"

\* the arguments <<address, quantity, value_wei>> of a mint or can_mint call
CallInputs ==
    UNION {{<<a, q, v>> : v \in OfferedValues(q)} : a \in Addresses, q \in Quantities}

MintSucceeded == last.op = "mint" /\ last.raised = "none"
MintRejected == last.op = "mint" /\ last.raised # "none"

\* the step is a call of op (tick leaves last and calls_left alone)
IsCall(op) == calls_left' = calls_left - 1 /\ last'.op = op

(***************************************************************************)
(* C1: in every reachable state total_minted equals the number of entries  *)
(* of the ownership map and total_minted <= MAX_SUPPLY.                    *)
(***************************************************************************)
C1_SupplyMatchesOwnership ==
    /\ total_minted = Cardinality(DOMAIN owner_of)
    /\ total_minted <= MANGO_TANGO_MAX_SUPPLY

\* a mint has just allocated tokens and others were allocated before it
C1_Witness ==
    /\ MintSucceeded
    /\ Len(last.ret) >= 1
    /\ total_minted > Len(last.ret)

(***************************************************************************)
(* C2: in every reachable state the phase is SOLD_OUT if and only if       *)
(* total_minted = MAX_SUPPLY.  Fails: advance_to_public reopens a sold-out *)
(* ledger.                                                                 *)
(***************************************************************************)
C2_SoldOutIffExhausted ==
    (phase = "SOLD_OUT") <=> (total_minted = MANGO_TANGO_MAX_SUPPLY)

(***************************************************************************)
(* C3: the phase never moves backward in CLOSED < ALLOWLIST < PUBLIC <     *)
(* SOLD_OUT; nothing changes the phase once it is SOLD_OUT.  Fails:        *)
(* advance_to_public takes SOLD_OUT to PUBLIC.                             *)
(***************************************************************************)
C3_PhaseMonotonic ==
    [][ /\ PhaseValue(phase') >= PhaseValue(phase)
        /\ (phase = "SOLD_OUT" => phase' = "SOLD_OUT") ]_vars

(***************************************************************************)
(* C4: in every reachable state and for all arguments, can_mint rejects    *)
(* with the reason of the first failing check in the order phase, supply,  *)
(* payment, allowlist (Allowlist phase only), wallet limit, and allows     *)
(* exactly when no check fails.                                            *)
(***************************************************************************)
C4_CanMintFirstFailingCheck ==
    \A i \in CallInputs :
        LET k == FirstFailingCheck(i[1], i[2], i[3]) IN
        can_mint(i[1], i[2], i[3]) =
            IF k = 0 THEN <<TRUE, <<>> >> ELSE <<FALSE, <<ReasonOfCheck(k)>> >>

\* an address that is not on the allowlist has minted 5 at once, which only
\* the Public phase admits
C4_Witness ==
    /\ MintSucceeded
    /\ Len(last.ret) = MANGO_TANGO_PUBLIC_PHASE_MAX_PER_WALLET
    /\ ~is_on_allowlist(owner_of[last.ret[1]])
    /\ \E j \in 1..Len(event_log) :
         event_log[j] = [event |-> "PhaseAdvanced", data |-> [phase |-> "PUBLIC"]]

(***************************************************************************)
(* C5: in every reachable state and for all arguments, mint raises nothing *)
(* if and only if can_mint, evaluated in that state on the same arguments, *)
(* allows; can_mint reads the ledger and assigns nothing.                  *)
(***************************************************************************)
C5_DryRunAgreesWithMint ==
    \A i \in CallInputs :
        (mint_raises(i[1], i[2], i[3]) = "none") <=> can_mint(i[1], i[2], i[3])[1]

\* a mint went through in the Allowlist phase, where all five checks apply
C5_Witness ==
    /\ MintSucceeded
    /\ phase = "ALLOWLIST"
    /\ Len(last.ret) >= 1

(***************************************************************************)
(* C6: a mint that raises leaves next_token_id, total_minted, the          *)
(* ownership, metadata and reveal-ready maps, the wallet counts, the       *)
(* phase, the allowlist and the event log as they were.                    *)
(***************************************************************************)
C6_RejectedMintChangesNothing ==
    [][ (last'.op = "mint" /\ last'.raised # "none") => UNCHANGED ledger ]_vars

\* a mint was rejected on a ledger that already holds tokens
C6_Witness ==
    /\ MintRejected
    /\ total_minted >= 1
    /\ event_log # <<>>

(***************************************************************************)
(* C7: in the Allowlist phase a mint from an address that is not on the    *)
(* allowlist, with sufficient supply and payment, raises                   *)
(* MangoTangoNotAllowedError.  Fails: it raises MangoTangoWalletLimitError.*)
(***************************************************************************)
C7_NonMemberRaisesNotAllowed ==
    [][ last'.op = "mint" =>
          \A i \in CallInputs :
              ( /\ phase = "ALLOWLIST"
                /\ Normalize(i[1]) \notin allowlist
                /\ ~SupplyCheckFails(i[2])
                /\ ~PaymentCheckFails(i[2], i[3])
                /\ mint(i[1], i[2], i[3], Steady(now)) )
              => last'.raised = "MangoTangoNotAllowedError" ]_vars

(***************************************************************************)
(* C8: a mint that passes the phase, supply, payment and allowlist checks  *)
(* and would take the wallet above the active per-wallet cap raises        *)
(* MangoTangoWalletLimitError.  Fails: it raises                           *)
(* MangoTangoMintCapReachedError.                                          *)
(***************************************************************************)
C8_OverCapRaisesWalletLimit ==
    [][ last'.op = "mint" =>
          \A i \in CallInputs :
              ( /\ FirstFailingCheck(i[1], i[2], i[3]) = 5
                /\ mint(i[1], i[2], i[3], Steady(now)) )
              => last'.raised = "MangoTangoWalletLimitError" ]_vars

\* two inputs whose first failing checks differ are rejected with different kinds
C9_KindsDiffer ==
    \A i, j \in CallInputs :
        ( /\ FirstFailingCheck(i[1], i[2], i[3]) # 0
          /\ FirstFailingCheck(j[1], j[2], j[3]) # 0
          /\ FirstFailingCheck(i[1], i[2], i[3]) # FirstFailingCheck(j[1], j[2], j[3]) )
        => mint_raises(i[1], i[2], i[3]) # mint_raises(j[1], j[2], j[3])

\* a mint failing the phase or payment check raises the kind section 7 names
C9_NamedKinds ==
    last'.op = "mint" =>
        \A i \in CallInputs :
            ( /\ FirstFailingCheck(i[1], i[2], i[3]) \in {1, 3}
              /\ mint(i[1], i[2], i[3], Steady(now)) )
            => last'.raised = KindOfCheck(FirstFailingCheck(i[1], i[2], i[3]))

(***************************************************************************)
(* C9: rejected mints whose first failing checks differ raise different    *)
(* error kinds, the kind being the one section 7 assigns to the check      *)
(* (phase closed, supply, payment, allowlist, wallet limit).  Fails: the   *)
(* kinds are MangoTangoMintCapReachedError for the supply and wallet-limit *)
(* checks and MangoTangoWalletLimitError for the other three.              *)
(***************************************************************************)
C9_ErrorKindIdentifiesCheck ==
    /\ [][C9_NamedKinds]_vars
    /\ [](MintRejected => C9_KindsDiffer)

(***************************************************************************)
(* C10: a successful mint of q >= 1 to A from total_minted = n returns     *)
(* <<n+1, ..., n+q>>, records A as the owner of each and leaves            *)
(* total_minted = n+q; the owned ids are always 1..total_minted, and an id *)
(* once owned keeps its owner.                                             *)
(***************************************************************************)
C10_MintStep ==
    (last'.op = "mint" /\ last'.raised = "none") =>
        \A i \in CallInputs :
            (i[2] >= 1 /\ mint(i[1], i[2], i[3], Steady(now))) =>
                /\ last'.ret = [k \in 1..i[2] |-> total_minted + k]
                /\ \A k \in 1..i[2] : owner_of'[total_minted + k] = i[1]
                /\ total_minted' = total_minted + i[2]
C10_OwnersKept ==
    \A t \in DOMAIN owner_of : t \in DOMAIN owner_of' /\ owner_of'[t] = owner_of[t]
C10_SequentialIds ==
    /\ [](DOMAIN owner_of = 1..total_minted)
    /\ [][C10_MintStep /\ C10_OwnersKept]_vars

\* a second batch was minted to a wallet other than the owner of token 1
C10_Witness ==
    /\ MintSucceeded
    /\ Len(last.ret) >= 2
    /\ last.ret[1] >= 2
    /\ Normalize(owner_of[1]) # Normalize(owner_of[last.ret[1]])

\* the mint that exhausts the supply closes the sale in the same call
C11_ExhaustingMint ==
    (total_minted < MANGO_TANGO_MAX_SUPPLY /\ total_minted' = MANGO_TANGO_MAX_SUPPLY) =>
        /\ phase' = "SOLD_OUT"
        /\ Len(event_log') > Len(event_log)
        /\ event_log'[Len(event_log')] =
             [event |-> "PhaseAdvanced", data |-> [phase |-> "SOLD_OUT"]]
\* in the state that mint leaves, mint raises whatever its arguments
C11_NextMintRaises ==
    (MintSucceeded /\ total_minted = MANGO_TANGO_MAX_SUPPLY) =>
        \A i \in CallInputs : mint_raises(i[1], i[2], i[3]) # "none"
\* a mint made on the sold-out ledger raises and allocates nothing
C11_MintAfterSoldOut ==
    (phase = "SOLD_OUT" /\ total_minted = MANGO_TANGO_MAX_SUPPLY /\ IsCall("mint")) =>
        last'.raised # "none" /\ UNCHANGED ledger

(***************************************************************************)
(* C11: a mint that brings total_minted to MAX_SUPPLY leaves the phase     *)
(* SOLD_OUT with a PhaseAdvanced event appended last; in the state it      *)
(* leaves, mint raises for every address, quantity and value, and a mint   *)
(* made on the sold-out ledger changes nothing.                            *)
(***************************************************************************)
C11_SoldOutAtExhaustion ==
    /\ [](C11_NextMintRaises)
    /\ [][C11_ExhaustingMint /\ C11_MintAfterSoldOut]_vars

\* a mint was rejected on the ledger that the exhausting mint left
C11_Witness ==
    /\ MintRejected
    /\ phase = "SOLD_OUT"
    /\ total_minted = MANGO_TANGO_MAX_SUPPLY
    /\ event_log[Len(event_log)] = [event |-> "PhaseAdvanced", data |-> [phase |-> "SOLD_OUT"]]

(***************************************************************************)
(* The phase a wallet minted in, read off the event log: a MintRequested   *)
(* event was emitted in the Public phase when a PhaseAdvanced event to     *)
(* PUBLIC precedes it, and in the Allowlist phase otherwise.               *)
(***************************************************************************)
PhaseAtEvent(j) ==
    IF \E i \in 1..(j - 1) :
         event_log[i] = [event |-> "PhaseAdvanced", data |-> [phase |-> "PUBLIC"]]
    THEN "PUBLIC" ELSE "ALLOWLIST"
NormalizedForm == [a \in Addresses |-> Normalize(a)]
MintEventsOf(w) ==
    {j \in 1..Len(event_log) :
        /\ event_log[j].event = "MintRequested"
        /\ NormalizedForm[event_log[j].data.to] = w}
PhasesMintedIn(w) == {PhaseAtEvent(j) : j \in MintEventsOf(w)}
CapOfPhase(p) ==
    IF p = "ALLOWLIST" THEN MANGO_TANGO_ALLOWLIST_PHASE_MAX_PER_WALLET
    ELSE MANGO_TANGO_PUBLIC_PHASE_MAX_PER_WALLET

(***************************************************************************)
(* C12: in every reachable state each wallet's cumulative minted count is  *)
(* at most the per-wallet cap of every phase in which the wallet has       *)
(* minted.  Fails: a wallet that minted in the Allowlist phase mints on in *)
(* the Public phase up to 5, above the Allowlist cap of 2.                 *)
(***************************************************************************)
C12_WithinCapOfEveryPhaseMintedIn ==
    \A w \in Wallets : \A p \in PhasesMintedIn(w) :
        DictGet(mint_count_per_wallet, w, 0) <= CapOfPhase(p)

\* the image reference of a revealed token and the shared placeholder
TokenImage(t) == MANGO_TANGO_COLLECTION_URI \o IntToStr(t) \o ".png"
PlaceholderImage == MANGO_TANGO_COLLECTION_URI \o "unrevealed.png"

\* a mint stamps each new token with the clock reading of its iteration
\* plus the delay, and no step moves a stamp
C13_ReadyAtMintTimePlusDelay ==
    /\ \A t \in DOMAIN reveal_ready_at :
         t \in DOMAIN reveal_ready_at' /\ reveal_ready_at'[t] = reveal_ready_at[t]
    /\ (DOMAIN reveal_ready_at' # DOMAIN reveal_ready_at) =>
         /\ IsCall("mint") /\ last'.raised = "none"
         /\ DOMAIN reveal_ready_at' =
              DOMAIN reveal_ready_at \cup {last'.ret[k] : k \in 1..Len(last'.ret)}
    /\ (IsCall("mint") /\ last'.raised = "none") =>
         \A i \in CallInputs, c \in Clocks :
             mint(i[1], i[2], i[3], c) =>
                 \A k \in 1..Len(last'.ret) :
                     reveal_ready_at'[last'.ret[k]] = c[k] + MANGO_TANGO_REVEAL_DELAY_SEC

\* reveal of a minted token, before and from its reveal-ready timestamp; the
\* current time is the clock reading of reveal's guard
C13_RevealStep ==
    IsCall("reveal") =>
        \A t \in DOMAIN metadata_store, c \in Clocks :
            reveal(t, c) =>
                IF c[1] < reveal_ready_at[t]
                THEN /\ last'.raised = "MangoTangoRevealNotReadyError"
                     /\ ~metadata_store[t].revealed => ~metadata_store'[t].revealed
                     /\ UNCHANGED ledger
                ELSE /\ last'.raised = "none"
                     /\ metadata_store'[t].revealed = TRUE
                     /\ metadata_store'[t].image_uri = TokenImage(t)
                     /\ metadata_store'[t].image_uri # PlaceholderImage
                     /\ last'.ret = metadata_store'[t]

(***************************************************************************)
(* C13: reveal(t) of a minted token raises MangoTangoRevealNotReadyError   *)
(* and changes nothing, the metadata staying unrevealed, while the clock   *)
(* is before the mint time plus REVEAL_DELAY; from that time on it         *)
(* succeeds and stores metadata with revealed = TRUE and the image of      *)
(* token t in place of the placeholder.                                    *)
(***************************************************************************)
C13_RevealAfterDelay == [][C13_ReadyAtMintTimePlusDelay /\ C13_RevealStep]_vars

\* token 1 has been revealed while a token minted later is not ready yet
C13_Witness ==
    /\ last.op = "reveal" /\ last.raised = "none"
    /\ last.ret.token_id = 1
    /\ metadata_store[1].revealed
    /\ \E t \in DOMAIN metadata_store :
         now < reveal_ready_at[t] /\ ~metadata_store[t].revealed

\* the minted tokens that are ready at time T and not yet revealed
ReadyUnrevealed(T) ==
    {t \in DOMAIN metadata_store :
        T >= reveal_ready_at[t] /\ ~metadata_store[t].revealed}

\* what reveal_all_ready does to the tokens of R, and to no other
C14_RevealsExactly(R) ==
    /\ {last'.ret[i] : i \in 1..Len(last'.ret)} = R
    /\ Len(last'.ret) = Cardinality(R)
    /\ DOMAIN metadata_store' = DOMAIN metadata_store
    /\ \A t \in R : metadata_store'[t].revealed
    /\ \A t \in DOMAIN metadata_store \ R : metadata_store'[t] = metadata_store[t]
    /\ Len(event_log') = Len(event_log) + Cardinality(R)
    /\ SubSeq(event_log', 1, Len(event_log)) = event_log
    /\ \A j \in (Len(event_log) + 1)..Len(event_log') :
         /\ event_log'[j].event = "TokenRevealed"
         /\ event_log'[j].data.tokenId \in R

\* some time of the clock is the time of the call
C14_RevealAllReadyStep ==
    IsCall("reveal_all_ready") =>
        \E T \in Times : C14_RevealsExactly(ReadyUnrevealed(T))

(***************************************************************************)
(* C14: reveal_all_ready returns exactly the minted tokens that, at the    *)
(* time of the call, are at or past their reveal-ready timestamp and not   *)
(* yet revealed, each once, and reveals them; every other token keeps its  *)
(* metadata (a token not ready stays unrevealed, a revealed one is not     *)
(* rebuilt), and one TokenRevealed event is appended per returned token    *)
(* and none for any other.  The time of the call is any one time.          *)
(***************************************************************************)
C14_RevealAllReadyExact == [][C14_RevealAllReadyStep]_vars

C15_RepeatedRevealStep ==
    (IsCall("reveal") /\ last'.raised = "none") =>
        LET t == last'.ret.token_id IN
        metadata_store[t].revealed =>
            /\ metadata_store'[t].attributes = metadata_store[t].attributes
            /\ metadata_store'[t].image_uri = metadata_store[t].image_uri
            /\ last'.ret.attributes = metadata_store[t].attributes
            /\ last'.ret.image_uri = metadata_store[t].image_uri

(***************************************************************************)
(* C15: a successful reveal of a token that is already revealed returns    *)
(* and stores metadata with the attribute list and the image reference     *)
(* that the token's metadata had since its first reveal.                   *)
(***************************************************************************)
C15_RevealIdempotent == [][C15_RepeatedRevealStep]_vars

\* reveal has just succeeded on a token whose TokenRevealed event was
\* already in the log
C15_Witness ==
    /\ last.op = "reveal" /\ last.raised = "none"
    /\ \E i, j \in 1..Len(event_log) :
         /\ i < j
         /\ j = Len(event_log)
         /\ event_log[i] = [event |-> "TokenRevealed", data |-> [tokenId |-> last.ret.token_id]]
         /\ event_log[j] = event_log[i]

\* the normalized forms of the entries of an address list
NormalizedSet(l) == {Normalize(l[i]) : i \in 1..Len(l)}

C16_AddStep ==
    IsCall("add_to_allowlist") =>
        \A l \in AddressLists :
            add_to_allowlist(l) =>
                /\ allowlist' = allowlist \cup NormalizedSet(l)
                /\ (NormalizedSet(l) \subseteq allowlist =>
                       /\ allowlist' = allowlist
                       /\ Cardinality(allowlist') = Cardinality(allowlist))
C16_RemoveStep ==
    IsCall("remove_from_allowlist") =>
        \A a \in Addresses :
            remove_from_allowlist(a) => allowlist' = allowlist \ {Normalize(a)}
C16_OtherSteps ==
    (~IsCall("add_to_allowlist") /\ ~IsCall("remove_from_allowlist")) =>
        allowlist' = allowlist
\* the registry holds normalized forms only, and the allowlist check of
\* can_mint accepts an address iff its normalized form is registered
C16_LookupByNormalizedForm ==
    /\ \A x \in allowlist : Normalize(x) = x
    /\ phase = "ALLOWLIST" =>
          \A i \in CallInputs :
              (~SupplyCheckFails(i[2]) /\ ~PaymentCheckFails(i[2], i[3])) =>
                  ( (can_mint(i[1], i[2], i[3])[2] # <<REASON_ALLOWLIST>>)
                    <=> (Normalize(i[1]) \in allowlist) )

(***************************************************************************)
(* C16: add_to_allowlist and remove_from_allowlist add and remove the      *)
(* normalized forms of their arguments and nothing else changes the        *)
(* registry, so it is the set of normalized forms added and not removed    *)
(* since; adding addresses that are present under any spelling leaves the  *)
(* set and its size as they were; the allowlist check of can_mint accepts  *)
(* an address iff its normalized form is in the registry.                  *)
(***************************************************************************)
C16_AllowlistByNormalizedForm ==
    /\ [](C16_LookupByNormalizedForm)
    /\ [][C16_AddStep /\ C16_RemoveStep /\ C16_OtherSteps]_vars

\* two single-address adds have left one entry, which passes the check
\* under its other spelling
C16_Witness ==
    /\ last.op = "add_to_allowlist"
    /\ Len(event_log) = 2
    /\ \A j \in 1..2 : event_log[j] = [event |-> "AllowlistUpdated", data |-> [count |-> 1]]
    /\ allowlist = {ADDR_A}
    /\ is_on_allowlist(ADDR_A_VARIANT)

\* a royalty function has just returned
RoyaltyReturned == last.op \in {"compute_royalty_amount", "total_royalty_at_price"}

(***************************************************************************)
(* C17: for a sale price P >= 0 and bps in 0..10000 the amount r returned  *)
(* by compute_royalty_amount satisfies r * 10000 <= P * bps < (r+1)*10000. *)
(***************************************************************************)
C17_RoyaltyIsFloor ==
    RoyaltyReturned =>
        /\ last.ret * MANGO_TANGO_BPS_DENOM <= last.args[1] * last.args[2]
        /\ last.args[1] * last.args[2] < (last.ret + 1) * MANGO_TANGO_BPS_DENOM

\* a royalty of at least 1 was returned for a product that 10000 does not divide
C17_Witness ==
    /\ last.op = "compute_royalty_amount"
    /\ last.ret >= 1
    /\ (last.args[1] * last.args[2]) % MANGO_TANGO_BPS_DENOM # 0

\* ids a caller may name, 0 included; the minted ones are 1..total_minted
NamedIds == 0..(MANGO_TANGO_MAX_SUPPLY + 1)
Minted(t) == t \in 1..total_minted
InvalidRaised == last'.raised = "MangoTangoInvalidTokenIdError"

C18_OwnerOfStep ==
    IsCall("owner_of") =>
        \A t \in NamedIds :
            call_owner_of(t) =>
                /\ InvalidRaised <=> ~Minted(t)
                /\ Minted(t) => (last'.raised = "none" /\ last'.ret = owner_of[t])
                /\ UNCHANGED ledger
C18_GetMetadataStep ==
    IsCall("get_metadata") =>
        \A t \in NamedIds :
            get_metadata(t) =>
                /\ InvalidRaised <=> ~Minted(t)
                /\ Minted(t) => (last'.raised = "none" /\ last'.ret = metadata_store[t])
                /\ UNCHANGED ledger
C18_RevealStep ==
    IsCall("reveal") =>
        \A t \in NamedIds :
            (\E c \in Clocks : reveal(t, c)) =>
                /\ InvalidRaised <=> ~Minted(t)
                /\ InvalidRaised => UNCHANGED ledger

(***************************************************************************)
(* C18: owner_of(t), get_metadata(t) and reveal(t) raise                   *)
(* MangoTangoInvalidTokenIdError exactly when t is not in 1..total_minted, *)
(* and then leave the ledger and the event log unchanged; owner_of and     *)
(* get_metadata of a minted t return the stored owner and metadata.        *)
(***************************************************************************)
C18_InvalidTokenIdIffUnminted ==
    [][C18_OwnerOfStep /\ C18_GetMetadataStep /\ C18_RevealStep]_vars

\* with tokens minted, owner_of was asked for an id that was never minted
C18_Witness ==
    /\ last.op = "owner_of"
    /\ last.raised = "MangoTangoInvalidTokenIdError"
    /\ total_minted >= 1

\* tokens a wallet minted in a phase, counted in the event log
MintedInPhase(w, p) == Cardinality({j \in MintEventsOf(w) : PhaseAtEvent(j) = p})

\* the counter of a wallet is the sum over both phases and never exceeds
\* the Public cap, its Allowlist part never the Allowlist cap
C19_OneCumulativeCounter ==
    \A w \in Wallets :
        LET k == MintedInPhase(w, "ALLOWLIST")
            inPublic == MintedInPhase(w, "PUBLIC")
        IN  /\ DictGet(mint_count_per_wallet, w, 0) = k + inPublic
            /\ k <= MANGO_TANGO_ALLOWLIST_PHASE_MAX_PER_WALLET
            /\ k + inPublic <= MANGO_TANGO_PUBLIC_PHASE_MAX_PER_WALLET

\* in the Public phase, with supply and payment sufficient, can_mint allows
\* quantity q iff k + (minted in Public) + q <= 5
C19_PublicAllowance ==
    phase = "PUBLIC" =>
        \A a \in Addresses :
            LET k == MintedInPhase(NormalizedForm[a], "ALLOWLIST")
                inPublic == MintedInPhase(NormalizedForm[a], "PUBLIC")
            IN  \A q \in Quantities : \A v \in OfferedValues(q) :
                    (~SupplyCheckFails(q) /\ ~PaymentCheckFails(q, v)) =>
                        ( can_mint(a, q, v)[1]
                          <=> (k + inPublic + q <= MANGO_TANGO_PUBLIC_PHASE_MAX_PER_WALLET) )

(***************************************************************************)
(* C19: a wallet has one cumulative counter for both phases: it equals the *)
(* tokens minted in the Allowlist phase (k <= 2) plus those minted in the  *)
(* Public phase and never exceeds 5, and a Public-phase mint of q passes   *)
(* the wallet-limit check iff k + (minted in Public) + q <= 5.             *)
(***************************************************************************)
C19_PhaseAgnosticCounter == C19_OneCumulativeCounter /\ C19_PublicAllowance

\* a wallet that minted in both phases is refused a quantity that the
\* remaining supply would cover
C19_Witness ==
    /\ phase = "PUBLIC"
    /\ \E i \in CallInputs :
         /\ MintedInPhase(Normalize(i[1]), "ALLOWLIST") >= 1
         /\ MintedInPhase(Normalize(i[1]), "PUBLIC") >= 1
         /\ FirstFailingCheck(i[1], i[2], i[3]) = 5

(***************************************************************************)
(* C20: in every reachable state next_token_id = total_minted + 1 and the  *)
(* ownership map, the metadata store and the reveal-ready map all have the *)
(* key set 1..total_minted.                                                *)
(***************************************************************************)
C20_DenseIds ==
    /\ next_token_id = total_minted + 1
    /\ DOMAIN owner_of = 1..total_minted
    /\ DOMAIN metadata_store = 1..total_minted
    /\ DOMAIN reveal_ready_at = 1..total_minted

\* tokens from two mints are held and one of them has been revealed
C20_Witness ==
    /\ total_minted >= 2
    /\ \E t, u \in DOMAIN reveal_ready_at : reveal_ready_at[t] # reveal_ready_at[u]
    /\ \E t \in DOMAIN metadata_store : metadata_store[t].revealed

C21_RevealFrame ==
    (IsCall("reveal") /\ last'.raised = "none") =>
        LET t == last'.ret.token_id IN
        /\ DOMAIN metadata_store' = DOMAIN metadata_store
        /\ \A u \in DOMAIN metadata_store \ {t} : metadata_store'[u] = metadata_store[u]
        /\ metadata_store'[t].token_id = t
        /\ event_log' = Append(event_log, [event |-> "TokenRevealed", data |-> [tokenId |-> t]])
        /\ UNCHANGED <<owner_of, reveal_ready_at, total_minted, next_token_id,
                       mint_count_per_wallet, phase, allowlist>>

(***************************************************************************)
(* C21: a successful reveal(t) replaces the metadata of token t, keeping   *)
(* its token id, and appends one TokenRevealed event; the owners, the      *)
(* reveal-ready timestamps, total_minted, next_token_id, the wallet        *)
(* counts, the phase, the allowlist and the metadata of the other tokens   *)
(* are as before.                                                          *)
(***************************************************************************)
C21_RevealChangesOneRecord == [][C21_RevealFrame]_vars

\* token 2 has been revealed while token 1 still shows the placeholder
C21_Witness ==
    /\ last.op = "reveal" /\ last.raised = "none"
    /\ last.ret.token_id = 2
    /\ metadata_store[2].image_uri = TokenImage(2)
    /\ metadata_store[1].image_uri = PlaceholderImage

C22_ExactAllocation ==
    (IsCall("mint") /\ last'.raised = "none") =>
        \A i \in CallInputs :
            mint(i[1], i[2], i[3], Steady(now)) =>
                /\ Len(last'.ret) = i[2]
                /\ DictGet(mint_count_per_wallet', Normalize(i[1]), 0) =
                     DictGet(mint_count_per_wallet, Normalize(i[1]), 0) + i[2]
                /\ total_minted' = total_minted + i[2]

(***************************************************************************)
(* C22: with calls executed one at a time, a successful mint of quantity   *)
(* q >= 0 returns q ids and adds q to the wallet's count: the allocation   *)
(* loop never stops early.                                                 *)
(***************************************************************************)
C22_SerializedMintAllocatesAll == [][C22_ExactAllocation]_vars

\* a second mint has taken exactly what was left of the supply
C22_Witness ==
    /\ MintSucceeded
    /\ total_minted = MANGO_TANGO_MAX_SUPPLY
    /\ Len(last.ret) >= 1
    /\ Len(last.ret) < total_minted

IsMintRequested(e) == e.event = "MintRequested"
MintRequestedEvents == SelectSeq(event_log, IsMintRequested)

\* the MintRequested events are those of tokens 1..total_minted, in order,
\* each naming the recorded owner
C24_MintEventsListTokens ==
    /\ Len(MintRequestedEvents) = total_minted
    /\ \A k \in 1..Len(MintRequestedEvents) :
         /\ MintRequestedEvents[k].data.tokenId = k
         /\ MintRequestedEvents[k].data.to = owner_of[k]
C24_LogExtended ==
    /\ Len(event_log') >= Len(event_log)
    /\ SubSeq(event_log', 1, Len(event_log)) = event_log

(***************************************************************************)
(* C24: every step leaves the previous event log as a prefix of the new    *)
(* one, and in every reachable state the MintRequested events, in log      *)
(* order, are those of tokens 1, 2, ..., total_minted, one per token, each *)
(* carrying the recipient recorded as the token's owner.                   *)
(***************************************************************************)
C24_AppendOnlyMintLog ==
    /\ [](C24_MintEventsListTokens)
    /\ [][C24_LogExtended]_vars

\* two mints to different recipients are logged with a reveal between them
C24_Witness ==
    \E i, j, k \in 1..Len(event_log) :
        /\ i < j /\ j < k
        /\ event_log[i].event = "MintRequested"
        /\ event_log[j].event = "TokenRevealed"
        /\ event_log[k].event = "MintRequested"
        /\ event_log[i].data.to # event_log[k].data.to

\* the sum of the values of a dict of integers
RECURSIVE SumOfValues(_)
SumOfValues(d) ==
    IF DOMAIN d = {} THEN 0
    ELSE LET k == CHOOSE x \in DOMAIN d : TRUE IN
         d[k] + SumOfValues([x \in DOMAIN d \ {k} |-> d[x]])

(***************************************************************************)
(* C25: in every reachable state and for every address, the mint counter   *)
(* stored under the address's normalized form (0 if absent) equals         *)
(* balance_of(address), and the counters sum to total_minted.              *)
(***************************************************************************)
C25_CounterEqualsBalance ==
    /\ \A a \in Addresses :
         DictGet(mint_count_per_wallet, Normalize(a), 0) = balance_of(a)
    /\ SumOfValues(mint_count_per_wallet) = total_minted

\* a wallet holds a token minted under a variant spelling of its address, and
\* another wallet holds tokens too
C25_Witness ==
    /\ \E t \in DOMAIN owner_of : owner_of[t] = ADDR_A_VARIANT
    /\ balance_of(ADDR_A) >= 1
    /\ balance_of(ADDR_B) >= 1
    /\ Cardinality(DOMAIN mint_count_per_wallet) >= 2

\* a wallet's cumulative count is above the per-wallet cap of the phase that
\* is open for minting
OverCap ==
    /\ phase \in {"ALLOWLIST", "PUBLIC"}
    /\ \E w \in DOMAIN mint_count_per_wallet :
         mint_count_per_wallet[w] > get_max_per_wallet

(***************************************************************************)
(* C23: when two mint calls run without mutual exclusion, a state in which *)
(* a wallet's cumulative count exceeds the cap of the phase open for       *)
(* minting is reachable (the witness), and every such state follows a mint *)
(* that was called while another mint was between its call and its return; *)
(* as long as the mints run one after the other no such state is reached.  *)
(***************************************************************************)
C23_OverCapOnlyByInterleaving == OverCap => overlapped

\* both mints of the cap's quantity passed validation before either counted:
\* the allowlisted wallet holds twice the Allowlist cap in the Allowlist phase
C23_Witness ==
    /\ phase = "ALLOWLIST"
    /\ overlapped
    /\ \A th \in Threads : ~InFlight(th)
    /\ DictGet(mint_count_per_wallet, Normalize(ADDR_A), 0)
         = 2 * MANGO_TANGO_ALLOWLIST_PHASE_MAX_PER_WALLET

\* the ids a thread in mint has allocated so far
IdsOf(th) ==
    IF InFlight(th)
    THEN {Frame(th).minted_ids[k] : k \in 1..Len(Frame(th).minted_ids)}
           \cup (IF Frame(th).pc \in {"stamp", "metadata"} THEN {Frame(th).tid} ELSE {})
    ELSE {}

(***************************************************************************)
(* C26: whatever the interleaving of two mint calls, total_minted never    *)
(* exceeds MAX_SUPPLY and every id 1..total_minted is allocated once (one  *)
(* owner entry, at most one MintRequested event, held by at most one call  *)
(* in progress); a mint that passed validation returns at most the         *)
(* quantity requested, and fewer only after an overlap, with the supply    *)
(* exhausted.                                                              *)
(***************************************************************************)
C26_SupplyHoldsUnderInterleaving ==
    /\ total_minted <= MANGO_TANGO_MAX_SUPPLY
    /\ next_token_id = total_minted + 1
    /\ DOMAIN owner_of = 1..total_minted
    /\ \A j, k \in 1..Len(MintRequestedEvents) :
         /\ MintRequestedEvents[k].data.tokenId \in 1..total_minted
         /\ j # k => MintRequestedEvents[j].data.tokenId # MintRequestedEvents[k].data.tokenId
    /\ \A th \in Threads :
         /\ IdsOf(th) \subseteq 1..total_minted
         /\ InFlight(th) =>
              \A j, k \in 1..Len(Frame(th).minted_ids) :
                  j < k => Frame(th).minted_ids[j] < Frame(th).minted_ids[k]
    /\ \A th, o \in Threads : th # o => IdsOf(th) \cap IdsOf(o) = {}
    /\ (\A th \in Threads : ~InFlight(th)) =>
         /\ Len(MintRequestedEvents) = total_minted
         /\ DOMAIN metadata_store = 1..total_minted
         /\ DOMAIN reveal_ready_at = 1..total_minted
    /\ (last.op = "mint" /\ last.raised = "none" /\ "args" \in DOMAIN last) =>
         /\ Len(last.ret) <= last.args[2]
         /\ Len(last.ret) < last.args[2] =>
              (overlapped /\ total_minted = MANGO_TANGO_MAX_SUPPLY)

\* a mint that passed validation returned fewer ids than it asked for
C26_Witness ==
    /\ last.op = "mint" /\ last.raised = "none"
    /\ "args" \in DOMAIN last
    /\ Len(last.ret) < last.args[2]
    /\ total_minted = MANGO_TANGO_MAX_SUPPLY

====
